---- MODULE Spec2Model ----
(***************************************************************************)
(* Model of the houp validation-rule compiler (github.com/n10ty/houp):     *)
(* the directive parser, the type resolver, the dive rule's code emission, *)
(* the package-wide dive closure pass and the two generation drivers       *)
(* (Generate for a package, GenerateForFiles for a list of files).         *)
(*                                                                         *)
(* Six specifications share the module:                                    *)
(*   SpecParse  parseValidationRules applied to bounded directives         *)
(*   Spec       a generation run over a bounded package                    *)
(*   SpecRun    the code emitted by dive, executed on bounded values       *)
(*   SpecCheck  the checks emitted for the fields of one struct, executed  *)
(*   SpecResolve  ResolveTypeInfo applied to bounded type expressions      *)
(*   SpecCtx    AddImport and AddRegexpVar applied to one context          *)
(***************************************************************************)
EXTENDS Integers, Sequences, FiniteSets, TLC

VARIABLES
    \* ---- directive parser harness
    tag,            \* the directive: the parts strings.Split(validateTag, ",") yields
    parsed,         \* result of parseValidationRules: [done, err, rules]
    \* ---- generation run
    world,          \* the source package: files, declarations, fields, tags
    mode,           \* "package" (Generate) or "files" (GenerateForFiles)
    unknownTagMode, \* opts.UnknownTagMode: "fail" or "skip"
    phase,          \* position of the driver
    infos,          \* file name -> FileInfo: [parsed, Structs]
    pending,        \* files the driver's loop has not visited yet
    written,        \* output files written so far
    emitted,        \* file name -> the generated text: sequence of entry points
    runErr,         \* outcome of the run: "none", or the kind of error returned
    \* ---- emitted code, executed (SpecRun / SpecCheck)
    rtField,        \* the dived field [Type, Rules, typesInfo] / the struct [Decl, typesInfo]
    rtProg,         \* the emitted fragments
    rtVal,          \* the slice value: sequence of elements / the values [F, S]
    rtPc,           \* [stage, f, i]: position in the emitted code
    rtLog,          \* sequence of events / of the checks evaluated
    rtRes           \* result of Validate(): [done, err, idx]

parseVars == <<tag, parsed>>
genVars   == <<world, mode, unknownTagMode, phase, infos, pending, written, emitted, runErr>>
runVars   == <<rtField, rtProg, rtVal, rtPc, rtLog, rtRes>>
vars      == <<tag, parsed, world, mode, unknownTagMode, phase, infos, pending, written,
               emitted, runErr, rtField, rtProg, rtVal, rtPc, rtLog, rtRes>>

(***************************************************************************)
(* Bounds                                                                  *)
(***************************************************************************)
MaxSegs == 4        \* longest directive of the parser harness, in segments
MaxWrap == 2        \* deepest pointer/slice/array nesting of a field type
MaxElems == 3       \* longest slice the emitted code is executed on
MaxNum == 4         \* largest number a numeric field is given

(***************************************************************************)
(* Directive segments.  A segment is one part of the comma split, already  *)
(* trimmed: name[=param].  HasColon tells whether the text holds a ':'.    *)
(***************************************************************************)
Seg(n, p) == [name |-> n, param |-> p]

EmptySeg == Seg("", "")

DiveSeg == Seg("dive", "")

ColonTexts == {"pkg:Var", "pkg:Func"}

HasColon(s) == s \in ColonTexts

\* strings.SplitN(s, ":", 2) on the texts of the alphabet
SplitColon(s) ==
    CASE s = "pkg:Var"  -> <<"pkg", "Var">>
      [] s = "pkg:Func" -> <<"pkg", "Func">>
      [] OTHER          -> <<s>>

\* ruleStr of a segment contains ':'
SegHasColon(seg) == HasColon(seg.name) \/ HasColon(seg.param)

(***************************************************************************)
(* Rules.  kind is the rule's Name(); p1, p2 its parameters; elems the     *)
(* ElementRules of a DiveRule (empty for every other rule).                *)
(***************************************************************************)
Rule(k, a, b) == [kind |-> k, p1 |-> a, p2 |-> b, elems |-> <<>>]

DiveRule(es) == [kind |-> "dive", p1 |-> "", p2 |-> "", elems |-> es]

NoRule == Rule("none", "", "")

Ok(r) == [err |-> FALSE, rule |-> r]

Fail == [err |-> TRUE, rule |-> NoRule]

\* parseRegexpRule: regexp=pkg/path:VarName
parseRegexpRule(param) ==
    IF param = "" THEN Fail
    ELSE IF Len(SplitColon(param)) # 2 THEN Fail
    ELSE Ok(Rule("regexp", SplitColon(param)[1], SplitColon(param)[2]))

\* parseCustomRule: pkg/path:FuncName
parseCustomRule(ruleStr) ==
    IF Len(SplitColon(ruleStr)) # 2 THEN Fail
    ELSE Ok(Rule("custom", SplitColon(ruleStr)[1], SplitColon(ruleStr)[2]))

\* parseValidationRule: one segment -> one rule, or an error
parseValidationRule(seg) ==
    LET ruleName == seg.name
        param == seg.param
    IN CASE ruleName = "required" -> Ok(Rule("required", "", ""))
         [] ruleName = "required_without" ->
                IF param = "" THEN Fail ELSE Ok(Rule("required_without", param, ""))
         [] ruleName = "eqfield" ->
                IF param = "" THEN Fail ELSE Ok(Rule("eqfield", param, ""))
         [] ruleName = "omitempty" -> Ok(Rule("omitempty", "", ""))
         [] ruleName \in {"min", "max", "gt", "lt", "gte", "lte"} -> Ok(Rule(ruleName, param, ""))
         [] ruleName = "regexp" -> parseRegexpRule(param)
         [] ruleName = "unique" -> Ok(Rule("unique", param, ""))
         [] ruleName = "dive" -> Ok(DiveRule(<<>>))
         [] ruleName = "datetime" ->
                IF param = "" THEN Fail ELSE Ok(Rule("datetime", param, ""))
         [] ruleName \in {"uuid", "iso4217", "email", "iso3166_1_alpha2"} ->
                Ok(Rule(ruleName, "", ""))
         [] OTHER ->
                IF SegHasColon(seg) THEN parseCustomRule(seg.name)
                ELSE Ok(Rule("unknown", seg.name, seg.param))

\* the loops of parseValidationRules over parts[lo..hi]: empty parts are
\* skipped, the first failing part aborts with (nil, err)
RECURSIVE parseParts(_, _, _, _)
parseParts(parts, lo, hi, acc) ==
    IF lo > hi THEN [err |-> FALSE, rules |-> acc]
    ELSE IF parts[lo] = EmptySeg THEN parseParts(parts, lo + 1, hi, acc)
    ELSE LET r == parseValidationRule(parts[lo])
         IN IF r.err THEN [err |-> TRUE, rules |-> <<>>]
            ELSE parseParts(parts, lo + 1, hi, Append(acc, r.rule))

\* index of the first part equal to "dive", 0 when there is none
diveIndexOf(parts) ==
    IF \E i \in 1..Len(parts) : parts[i] = DiveSeg
    THEN CHOOSE i \in 1..Len(parts) :
            parts[i] = DiveSeg /\ \A j \in 1..(i - 1) : parts[j] # DiveSeg
    ELSE 0

\* variant: the post-dive rules are also kept as top-level rules
diveTailFlat(pre, post) == Append(pre, DiveRule(post)) \o post

\* the rules parseValidationRules returns for a directive with dive: the
\* pre-dive rules, then one DiveRule holding the post-dive rules
diveTail(pre, post) == Append(pre, DiveRule(post))

\* parseValidationRules: the directive -> [err, rules]
parseValidationRules(parts) ==
    IF parts = <<EmptySeg>> THEN [err |-> FALSE, rules |-> <<>>]
    ELSE LET diveIndex == diveIndexOf(parts)
         IN IF diveIndex > 0
            THEN LET pre == parseParts(parts, 1, diveIndex - 1, <<>>)
                     post == parseParts(parts, diveIndex + 1, Len(parts), <<>>)
                 IN IF pre.err THEN [err |-> TRUE, rules |-> <<>>]
                    ELSE IF post.err THEN [err |-> TRUE, rules |-> <<>>]
                    ELSE [err |-> FALSE, rules |-> diveTail(pre.rules, post.rules)]
            ELSE parseParts(parts, 1, Len(parts), <<>>)

(***************************************************************************)
(* Type expressions.  A field type is a chain of pointer / slice / array   *)
(* constructors (wrap, outermost first) around a leaf: an identifier, a    *)
(* package-qualified selector, or an inline struct / map / interface.      *)
(***************************************************************************)
Leaf(k, p, n) == [k |-> k, pkg |-> p, name |-> n]

Ident(n) == Leaf("ident", "", n)

Selector(p, n) == Leaf("selector", p, n)

TypeExpr(w, l) == [wrap |-> w, leaf |-> l]

\* t.X of a StarExpr, t.Elt of an ArrayType
Inner(expr) == TypeExpr(Tail(expr.wrap), expr.leaf)

BasicNames == {"bool", "int", "int8", "int16", "int32", "int64", "uint", "uint8",
               "uint16", "uint32", "uint64", "float32", "float64", "string"}

\* getTypeKind: kind of a built-in type name
getTypeKind(name) ==
    IF name = "byte" THEN "uint8"
    ELSE IF name \in BasicNames THEN name
    ELSE "unknown"

\* getTypeKindFromBasic: types.BasicKind -> TypeKind
getTypeKindFromBasic(basic) == IF basic \in BasicNames THEN basic ELSE "unknown"

\* The type oracle (types.Info), when there is one: the underlying basic
\* type of the named types of the package ("" when it is not basic) ...
UnderlyingBasic(name) == IF name = "Str" THEN "string" ELSE ""

\* ... and the import path of a package identifier
ImportedPath(pkgIdent) ==
    CASE pkgIdent = "models" -> "example.com/models"
      [] pkgIdent = "json"   -> "encoding/json"
      [] OTHER               -> ""

TypeInfo(kind, name, pkgName, pkgPath, isPtr, isSlice, isStruct, hasElem, expr) ==
    [Kind |-> kind, Name |-> name, PkgName |-> pkgName, PkgPath |-> pkgPath,
     IsPointer |-> isPtr, IsSlice |-> isSlice, IsStruct |-> isStruct,
     HasElem |-> hasElem, UnderlyingGo |-> expr]

\* the PkgPath ResolveTypeInfo stores for a selector
selectorPkgPath(pkgIdent, typesInfo) == IF typesInfo THEN ImportedPath(pkgIdent) ELSE ""

\* the cases of ResolveTypeInfo's type switch for an expression that is
\* not a pointer, slice or array type
resolveLeaf(expr, typesInfo) ==
    LET l == expr.leaf
    IN CASE l.k = "ident" ->
              LET k0 == getTypeKind(l.name)
                  k1 == IF k0 = "unknown" /\ typesInfo /\ UnderlyingBasic(l.name) # ""
                        THEN getTypeKindFromBasic(UnderlyingBasic(l.name))
                        ELSE k0
              IN TypeInfo(k1, l.name, "", "", FALSE, FALSE, FALSE, FALSE, expr)
         [] l.k = "struct" ->
              TypeInfo("struct", "", "", "", FALSE, FALSE, TRUE, FALSE, expr)
         [] l.k = "selector" ->
              LET path == selectorPkgPath(l.pkg, typesInfo)
                  k == IF (l.pkg = "json" /\ l.name = "Number")
                          \/ (path = "encoding/json" /\ l.name = "Number")
                       THEN "jsonnumber" ELSE "struct"
              IN TypeInfo(k, l.name, l.pkg, path, FALSE, FALSE, FALSE, FALSE, expr)
         [] l.k = "map" ->
              TypeInfo("map", "", "", "", FALSE, FALSE, FALSE, FALSE, expr)
         [] l.k = "interface" ->
              TypeInfo("interface", "", "", "", FALSE, FALSE, FALSE, FALSE, expr)
         [] OTHER ->
              TypeInfo("unknown", "", "", "", FALSE, FALSE, FALSE, FALSE, expr)

\* variant: the array branch sets no Elem
ResolveTypeInfoArrayWithoutElem(expr, typesInfo) ==
    IF expr.wrap # <<>>
    THEN CASE Head(expr.wrap) = "star" ->
                  TypeInfo("pointer", "", "", "", TRUE, FALSE, FALSE, TRUE, expr)
           [] Head(expr.wrap) = "slice" ->
                  TypeInfo("slice", "", "", "", FALSE, TRUE, FALSE, TRUE, expr)
           [] OTHER ->
                  TypeInfo("array", "", "", "", FALSE, FALSE, FALSE, FALSE, expr)
    ELSE resolveLeaf(expr, typesInfo)

\* ResolveTypeInfo: typesInfo is TRUE when a types.Info is supplied (package
\* mode) and FALSE when it is nil (file-list mode).  Elem is not stored: it
\* is ResolveTypeInfo of the inner expression, see Elem below.
ResolveTypeInfo(expr, typesInfo) ==
    IF expr.wrap # <<>>
    THEN CASE Head(expr.wrap) = "star" ->
                  TypeInfo("pointer", "", "", "", TRUE, FALSE, FALSE, TRUE, expr)
           [] Head(expr.wrap) = "slice" ->
                  TypeInfo("slice", "", "", "", FALSE, TRUE, FALSE, TRUE, expr)
           [] OTHER ->
                  TypeInfo("array", "", "", "", FALSE, FALSE, FALSE, TRUE, expr)
    ELSE resolveLeaf(expr, typesInfo)

\* typeInfo.Elem, defined when typeInfo.HasElem
Elem(typeInfo, typesInfo) == ResolveTypeInfo(Inner(typeInfo.UnderlyingGo), typesInfo)

(***************************************************************************)
(* Emitted code.  The text a rule's Generate returns is a sequence of      *)
(* fragments; a fragment is one statement of the entry point:              *)
(*   validateEach   for i := range r.F { [if r.F[i] == nil { continue }]   *)
(*                  if err := r.F[i].Validate(); err != nil { return .. i } *)
(*   validatePtr    if r.F != nil { if err := r.F.Validate() ... }         *)
(*   validateField  if err := r.F.Validate(); err != nil { return ... }    *)
(*   requiredNil / requiredEmpty / requiredStr / requiredZero              *)
(*   unique         the seen-map loop                                      *)
(*   elemLoop       for i, elem := range r.F { <the lines of body> }       *)
(*   eqPtrPtr / eqPtrVal / eqValPtr / eqValVal   the four eqfield checks   *)
(*   requiredWithout   if <tests[1] of r.arg> && <tests[2] of r.F> { .. }  *)
(*   gt / gte / lt / lte   if [*]r.F <op> arg { return ... }               *)
(*   numberConv     the Float64() conversion of a json.Number              *)
(*   comment        a comment line, no statement                           *)
(***************************************************************************)
Frag(op, field, arg, ptr) ==
    [op |-> op, field |-> field, arg |-> arg, ptr |-> ptr, body |-> <<>>,
     verbs |-> <<>>, args |-> <<>>, tests |-> <<>>]

\* the fmt.Errorf of a fragment: the verbs of its format string after the
\* field name, in order ("index" is the %d of "field F[%d]"), and the
\* arguments that follow the format string
Errorf(frag, verbs, args) == [frag EXCEPT !.verbs = verbs, !.args = args]

\* the loop over the elements of a slice of primitives, with its lines
ElemLoop(field, lines) ==
    [op |-> "elemLoop", field |-> field, arg |-> "", ptr |-> FALSE, body |-> lines,
     verbs |-> <<>>, args |-> <<>>, tests |-> <<>>]

Code(frags) == [err |-> "none", frags |-> frags]

GenError(e) == [err |-> e, frags |-> <<>>]

FieldInfo(name, type, rules) == [Name |-> name, Type |-> type, Rules |-> rules]

\* RequiredRule.Generate
RequiredGenerate(field, typesInfo) ==
    LET typeInfo == ResolveTypeInfo(field.Type, typesInfo)
    IN IF typeInfo.IsPointer THEN Code(<<Frag("requiredNil", field.Name, "", FALSE)>>)
       ELSE IF typeInfo.IsSlice THEN Code(<<Frag("requiredEmpty", field.Name, "", FALSE)>>)
       ELSE IF typeInfo.Kind = "string" THEN Code(<<Frag("requiredStr", field.Name, "", FALSE)>>)
       ELSE IF typeInfo.Kind \in (BasicNames \ {"bool", "string"})
            THEN Code(<<Frag("requiredZero", field.Name, "", FALSE)>>)
       ELSE Code(<<Frag("comment", field.Name, "required", FALSE)>>)

\* UniqueRule.Generate
UniqueGenerate(rule, field, typesInfo) ==
    LET typeInfo == ResolveTypeInfo(field.Type, typesInfo)
    IN IF ~typeInfo.IsSlice THEN Code(<<>>)
       ELSE Code(<<Errorf(Frag("unique", field.Name, rule.p1,
                               rule.p1 # "" /\ Elem(typeInfo, typesInfo).IsPointer),
                          <<"d">>, <<"i">>)>>)

NumericKinds ==
    {"int", "int8", "int16", "int32", "int64",
     "uint", "uint8", "uint16", "uint32", "uint64", "float32", "float64"}

\* the type a pointer-aware rule looks at: the pointee of a pointer
Deref(typeInfo, typesInfo) ==
    IF typeInfo.IsPointer /\ typeInfo.HasElem THEN Elem(typeInfo, typesInfo) ELSE typeInfo

\* the line that converts a json.Number before it is compared
NumberConv(field) == Errorf(Frag("numberConv", field.Name, "", FALSE), <<"w">>, <<"err">>)

\* MinRule.Generate
MinGenerate(rule, field, typesInfo) ==
    LET typeInfo == ResolveTypeInfo(field.Type, typesInfo)
        t == Deref(typeInfo, typesInfo)
        needsDeref == typeInfo.IsPointer /\ typeInfo.HasElem
    IN IF t.IsSlice THEN Code(<<Frag("minLen", field.Name, rule.p1, FALSE)>>)
       ELSE IF t.Kind = "string" THEN Code(<<Frag("minLen", field.Name, rule.p1, needsDeref)>>)
       ELSE IF t.Kind \in NumericKinds
            THEN Code(<<Frag("minNum", field.Name, rule.p1, needsDeref)>>)
       ELSE IF t.Kind = "jsonnumber"
            THEN Code(<<NumberConv(field), Frag("minNum", field.Name, rule.p1, needsDeref)>>)
       ELSE GenError("generate")

\* DateTimeRule.Generate
DateTimeGenerate(rule, field, typesInfo) ==
    LET typeInfo == ResolveTypeInfo(field.Type, typesInfo)
        t == Deref(typeInfo, typesInfo)
    IN IF t.Kind \notin {"string", "unknown"} THEN GenError("generate")
       ELSE Code(<<Errorf(Frag("datetime", field.Name, rule.p1, typeInfo.IsPointer),
                          <<"w">>, <<"err">>)>>)

\* the strategy EqFieldRule.Generate picks from the pointer-ness of the
\* field and of the other field
eqStrategy(isPointer, otherIsPointer) ==
    IF isPointer /\ otherIsPointer THEN "eqPtrPtr"
    ELSE IF isPointer THEN "eqPtrVal"
    ELSE IF otherIsPointer THEN "eqValPtr"
    ELSE "eqValVal"

\* the loop over ctx.Struct.Fields that looks the other field up: the
\* fields of that name, the first one is taken
lookupField(ctx, name) == SelectSeq(ctx.Struct.Fields, LAMBDA f : f.Name = name)

\* EqFieldRule.Generate
EqFieldGenerate(rule, field, ctx) ==
    LET typeInfo == ResolveTypeInfo(field.Type, ctx.TypesInfo)
        otherFieldInfo == lookupField(ctx, rule.p1)
        otherFieldTypeInfo == IF otherFieldInfo # <<>>
                              THEN ResolveTypeInfo(otherFieldInfo[1].Type, ctx.TypesInfo)
                              ELSE typeInfo
    IN Code(<<Frag(eqStrategy(typeInfo.IsPointer, otherFieldTypeInfo.IsPointer),
                   field.Name, rule.p1, FALSE)>>)

\* TypeInfo.IsNumeric
IsNumeric(typeInfo) == typeInfo.Kind \in NumericKinds \cup {"jsonnumber"}

\* TypeInfo{IsPointer: true}
AssumedPointer ==
    TypeInfo("unknown", "", "", "", TRUE, FALSE, FALSE, FALSE,
             TypeExpr(<<>>, Leaf("none", "", "")))

\* the emptiness test RequiredWithoutRule.Generate writes for the other field
otherFieldIsEmpty(typeInfo) ==
    IF typeInfo.IsPointer THEN "nil"
    ELSE IF typeInfo.IsSlice THEN "nilOrLen0"
    ELSE IF typeInfo.Kind = "string" THEN "emptyStr"
    ELSE IF IsNumeric(typeInfo) THEN "zero"
    ELSE "nil"

\* ... and for the field itself, "none" when it writes no test
currentFieldIsEmpty(typeInfo) ==
    IF typeInfo.IsPointer THEN "nil"
    ELSE IF typeInfo.IsSlice THEN "nilOrLen0"
    ELSE IF typeInfo.Kind = "string" THEN "emptyStr"
    ELSE IF IsNumeric(typeInfo) THEN "zero"
    ELSE "none"

\* RequiredWithoutRule.Generate
RequiredWithoutGenerate(rule, field, ctx) ==
    LET typeInfo == ResolveTypeInfo(field.Type, ctx.TypesInfo)
        otherFieldInfo == lookupField(ctx, rule.p1)
        otherFieldTypeInfo == IF otherFieldInfo # <<>>
                              THEN ResolveTypeInfo(otherFieldInfo[1].Type, ctx.TypesInfo)
                              ELSE AssumedPointer
    IN IF currentFieldIsEmpty(typeInfo) = "none"
       THEN Code(<<Frag("comment", field.Name, "required_without", FALSE)>>)
       ELSE Code(<<[Frag("requiredWithout", field.Name, rule.p1, FALSE) EXCEPT
                      !.tests = <<otherFieldIsEmpty(otherFieldTypeInfo),
                                  currentFieldIsEmpty(typeInfo)>>]>>)

\* the body shared by the Generate of gt, gte, lt and lte, which differ in
\* the comparison: a pointer is dereferenced, a json.Number converted first
boundCheck(op, rule, field, typesInfo) ==
    LET typeInfo == ResolveTypeInfo(field.Type, typesInfo)
    IN IF typeInfo.IsPointer /\ typeInfo.HasElem
          /\ Elem(typeInfo, typesInfo).Kind = "jsonnumber"
       THEN Code(<<NumberConv(field), Frag(op, field.Name, rule.p1, TRUE)>>)
       ELSE IF typeInfo.Kind = "jsonnumber"
       THEN Code(<<NumberConv(field), Frag(op, field.Name, rule.p1, FALSE)>>)
       ELSE Code(<<Frag(op, field.Name, rule.p1, typeInfo.IsPointer)>>)

\* GTRule.Generate: if v <= N
GTGenerate(rule, field, typesInfo) == boundCheck("gt", rule, field, typesInfo)

\* variant: gte compares as gt does
GTEGenerateExclusive(rule, field, typesInfo) == boundCheck("gt", rule, field, typesInfo)

\* GTERule.Generate: if v < N
GTEGenerate(rule, field, typesInfo) == boundCheck("gte", rule, field, typesInfo)

\* LTRule.Generate: if v >= N
LTGenerate(rule, field, typesInfo) == boundCheck("lt", rule, field, typesInfo)

\* LTERule.Generate: if v > N
LTEGenerate(rule, field, typesInfo) == boundCheck("lte", rule, field, typesInfo)

\* DiveRule.isExternalType
RECURSIVE isExternalType(_, _)
isExternalType(typeInfo, typesInfo) ==
    IF typeInfo.PkgPath # "" THEN TRUE
    ELSE IF typeInfo.IsPointer /\ typeInfo.HasElem
         THEN isExternalType(Elem(typeInfo, typesInfo), typesInfo)
    ELSE FALSE

\* variant: the loop never tests the element for nil
validateEachLoopNoNilCheck(field, elemType) ==
    <<Errorf(Frag("validateEach", field.Name, "", FALSE), <<"index", "w">>, <<"i", "err">>)>>

\* the per-element loop both dive paths emit for a slice of records
validateEachLoop(field, elemType) ==
    <<Errorf(Frag("validateEach", field.Name, "", elemType.IsPointer),
             <<"index", "w">>, <<"i", "err">>)>>

\* concatenation of the code of a rule list, first error aborts
RECURSIVE generateAll(_, _, _, _, _)
RECURSIVE appendCode(_, _, _, _, _, _)
RECURSIVE Generate(_, _, _)

\* DiveRule.generateStructSliceValidation
generateStructSliceValidation(rule, field, elemType, isExternal, ctx) ==
    LET head == IF ~isExternal THEN validateEachLoop(field, elemType)
                ELSE <<Frag("comment", field.Name, "skipExternal", FALSE)>>
    IN generateAll(rule.elems, 1, field, ctx, head)

\* DiveRule.generateSliceElementValidation: the element rules are generated
\* against a temporary field "elem" of the element type; the lines they
\* yield become the body of one loop, no loop when there is no line
\* the fix-up of one generated line: "field elem" becomes "field F[%d]",
\* and ", i" is added before the last ")" of a fmt.Errorf line that does
\* not already hold ", i)"
fixLine(frag) ==
    IF frag.op = "comment" THEN frag
    ELSE Errorf(frag, <<"index">> \o frag.verbs,
                IF frag.args # <<>> /\ frag.args[Len(frag.args)] = "i"
                THEN frag.args ELSE Append(frag.args, "i"))

\* the loop built from the fixed lines, none when there is no line
elementLoop(body, field) ==
    IF body.err # "none" THEN body
    ELSE IF body.frags = <<>> THEN Code(<<>>)
    ELSE Code(<<ElemLoop(field.Name, [j \in 1..Len(body.frags) |-> fixLine(body.frags[j])])>>)

generateSliceElementValidation(rule, field, elemType, ctx) ==
    elementLoop(generateAll(rule.elems, 1,
                            FieldInfo("elem", elemType.UnderlyingGo, rule.elems),
                            ctx, <<>>),
                field)

\* DiveRule.Generate
DiveGenerate(rule, field, ctx) ==
    LET typesInfo == ctx.TypesInfo
        typeInfo == ResolveTypeInfo(field.Type, typesInfo)
    IN IF typeInfo.IsSlice
       THEN LET elemType == Elem(typeInfo, typesInfo)
                inner == IF elemType.IsPointer /\ elemType.HasElem
                         THEN Elem(elemType, typesInfo) ELSE elemType
                isStructElem == inner.Kind = "struct" \/ inner.Kind = "unknown"
                isExternal == isExternalType(elemType, typesInfo)
            IN IF Len(rule.elems) > 0 /\ ~isStructElem
               THEN generateSliceElementValidation(rule, field, elemType, ctx)
               ELSE IF Len(rule.elems) > 0 /\ isStructElem
               THEN generateStructSliceValidation(rule, field, elemType, isExternal, ctx)
               ELSE IF isExternal
               THEN Code(<<Frag("comment", field.Name, "skipExternal", FALSE)>>)
               ELSE Code(validateEachLoop(field, elemType))
       ELSE IF isExternalType(typeInfo, typesInfo)
            THEN Code(<<Frag("comment", field.Name, "skipExternal", FALSE)>>)
       ELSE IF typeInfo.IsPointer
            THEN Code(<<Frag("validatePtr", field.Name, "", TRUE)>>)
       ELSE Code(<<Frag("validateField", field.Name, "", FALSE)>>)

\* rule.Generate(ctx, field), dispatched on the rule's kind
Generate(rule, field, ctx) ==
    CASE rule.kind = "required" -> RequiredGenerate(field, ctx.TypesInfo)
      [] rule.kind = "unique"   -> UniqueGenerate(rule, field, ctx.TypesInfo)
      [] rule.kind = "dive"     -> DiveGenerate(rule, field, ctx)
      [] rule.kind = "min"      -> MinGenerate(rule, field, ctx.TypesInfo)
      [] rule.kind = "datetime" -> DateTimeGenerate(rule, field, ctx.TypesInfo)
      [] rule.kind = "eqfield"  -> EqFieldGenerate(rule, field, ctx)
      [] rule.kind = "required_without" -> RequiredWithoutGenerate(rule, field, ctx)
      [] rule.kind = "gt"       -> GTGenerate(rule, field, ctx.TypesInfo)
      [] rule.kind = "gte"      -> GTEGenerate(rule, field, ctx.TypesInfo)
      [] rule.kind = "lt"       -> LTGenerate(rule, field, ctx.TypesInfo)
      [] rule.kind = "lte"      -> LTEGenerate(rule, field, ctx.TypesInfo)
      [] rule.kind = "omitempty" -> Code(<<>>)
      [] rule.kind = "unknown"  -> GenError("unknownGenerate")
      [] OTHER                  -> GenError("generate")

\* the code g of rule i is appended, or its error returned
appendCode(g, rules, i, field, ctx, acc) ==
    IF g.err # "none" THEN g
    ELSE generateAll(rules, i + 1, field, ctx, acc \o g.frags)

generateAll(rules, i, field, ctx, acc) ==
    IF i > Len(rules) THEN Code(acc)
    ELSE appendCode(Generate(rules[i], field, ctx), rules, i, field, ctx, acc)

(***************************************************************************)
(* Rule applicability and the parse of a struct declaration                *)
(***************************************************************************)
\* rule.Validate(typeInfo): TRUE when the rule returns an error
ValidateFails(rule, typeInfo) ==
    CASE rule.kind = "unknown" -> TRUE
      [] rule.kind \in {"min", "max"} -> typeInfo.Kind = "bool"
      [] rule.kind \in {"gt", "gte", "lt", "lte"} ->
             ~IsNumeric(typeInfo) /\ typeInfo.Kind # "pointer"
      [] OTHER -> FALSE

\* ValidateRules: "none", or the error it returns
RECURSIVE validateRulesFrom(_, _, _, _)
validateRulesFrom(rules, i, typeInfo, utm) ==
    IF i > Len(rules) THEN "none"
    ELSE IF rules[i].kind = "unknown"
         THEN IF utm = "fail" THEN "unknownTag"
              ELSE validateRulesFrom(rules, i + 1, typeInfo, utm)
    ELSE IF ValidateFails(rules[i], typeInfo) THEN "notApplicable"
    ELSE validateRulesFrom(rules, i + 1, typeInfo, utm)

ValidateRules(field, utm, typesInfo) ==
    validateRulesFrom(field.Rules, 1, ResolveTypeInfo(field.Type, typesInfo), utm)

StructInfo(name, fields, needsGen, sourceFile, skip) ==
    [Name |-> name, Fields |-> fields, NeedsGen |-> needsGen, SourceFile |-> sourceFile,
     Skip |-> skip]

\* hasStructSkipAnnotation: whether a //validate:skip comment stands on the
\* declaration
hasStructSkipAnnotation(decl) == decl.Skip

\* hasFileSkipAnnotation: whether the file carries //validate:skip
hasFileSkipAnnotation(file) == file.Skip

\* the field loop of parseStruct: a field without a validate tag or with a
\* directive that fails to parse is left out
RECURSIVE parseFields(_, _, _)
parseFields(decls, i, acc) ==
    IF i > Len(decls) THEN acc
    ELSE IF decls[i].Tag = <<EmptySeg>> THEN parseFields(decls, i + 1, acc)
    ELSE LET r == parseValidationRules(decls[i].Tag)
         IN IF r.err THEN parseFields(decls, i + 1, acc)
            ELSE parseFields(decls, i + 1,
                             Append(acc, FieldInfo(decls[i].Name, decls[i].Type, r.rules)))

\* parseStruct: NeedsGen is set by every field that is kept
parseStruct(decl, filename) ==
    LET fields == parseFields(decl.fields, 1, <<>>)
    IN StructInfo(decl.Name, fields, fields # <<>>, filename, hasStructSkipAnnotation(decl))

\* the declaration loop of ParsePackage
parsePackageFile(file) ==
    [i \in 1..Len(file.decls) |-> parseStruct(file.decls[i], file.Name)]

\* the declaration loop of ParseFile.  typeGenDeclPositions collects the
\* positions of the declarations that are NOT type declarations; the k-th
\* type declaration (k > 0) indexes it with k-1, which panics when it is
\* out of range.
ParseFile(file) ==
    LET typeGenDeclPositions == file.others
        panics == \E k \in 1..Len(file.decls) : k - 1 > 0 /\ k - 2 >= typeGenDeclPositions
    IN [panic |-> panics,
        Structs |-> IF panics THEN <<>>
                    ELSE [i \in 1..Len(file.decls) |-> parseStruct(file.decls[i], file.Name)]]

(***************************************************************************)
(* The closure pass                                                        *)
(***************************************************************************)
\* the type name discoverAndMarkDiveStructs extracts from a dived field
diveTypeName(type, typesInfo) ==
    LET typeInfo == ResolveTypeInfo(type, typesInfo)
    IN IF typeInfo.IsPointer /\ typeInfo.HasElem THEN Elem(typeInfo, typesInfo).Name
       ELSE IF typeInfo.IsSlice /\ typeInfo.HasElem
            THEN LET e == Elem(typeInfo, typesInfo)
                 IN IF e.IsPointer /\ e.HasElem THEN Elem(e, typesInfo).Name ELSE e.Name
       ELSE typeInfo.Name

HasDive(field) == \E i \in 1..Len(field.Rules) : field.Rules[i].kind = "dive"

\* the type names the dive rules of the structs of one file refer to
fileReferences(fileInfo, typesInfo) ==
    UNION { { diveTypeName(fileInfo.Structs[s].Fields[x].Type, typesInfo) :
                x \in { y \in 1..Len(fileInfo.Structs[s].Fields) :
                          HasDive(fileInfo.Structs[s].Fields[y]) } } :
            s \in 1..Len(fileInfo.Structs) } \ {""}

\* referencedStructs of discoverAndMarkDiveStructs once the first n files
\* of the map iteration (order) have been visited
referencedUpTo(fi, order, n, typesInfo) ==
    UNION { fileReferences(fi[order[i]], typesInfo) : i \in 1..n }

\* referencedStructs when the second loop is over
referencedStructs(fi, order, typesInfo) == referencedUpTo(fi, order, Len(order), typesInfo)

\* the orders in which "range pkgInfo.Files" may visit the files
Orders(fi) ==
    { o \in [1..Cardinality(DOMAIN fi) -> DOMAIN fi] :
        \A i, j \in DOMAIN o : o[i] = o[j] => i = j }

PositionIn(order, f) == CHOOSE i \in DOMAIN order : order[i] = f

\* variant: the closure pass marks no struct
marksNothing(name, referenced) == FALSE

\* whether the closure pass marks the struct of this name
marks(name, referenced) == name \in referenced

\* variant: the flag is assigned whether the struct is referenced
markNeedsGenAssigned(structInfo, referenced) ==
    [structInfo EXCEPT !.NeedsGen = marks(structInfo.Name, referenced)]

\* the third loop: structInfo.NeedsGen = true for a referenced struct
markNeedsGen(structInfo, referenced) ==
    [structInfo EXCEPT !.NeedsGen = @ \/ marks(structInfo.Name, referenced)]

\* variant: one loop, a struct is marked while the files are visited, from
\* the references met so far
discoverAndMarkDiveStructsInOneLoop(fi, order, typesInfo) ==
    [f \in DOMAIN fi |->
       [fi[f] EXCEPT !.Structs =
          [s \in 1..Len(fi[f].Structs) |->
             markNeedsGen(fi[f].Structs[s],
                          referencedUpTo(fi, order, PositionIn(order, f), typesInfo))]]]

\* discoverAndMarkDiveStructs: the FileInfos after the pass, when the files
\* are visited in this order
discoverAndMarkDiveStructs(fi, order, typesInfo) ==
    [f \in DOMAIN fi |->
       [fi[f] EXCEPT !.Structs =
          [s \in 1..Len(fi[f].Structs) |->
             markNeedsGen(fi[f].Structs[s], referencedStructs(fi, order, typesInfo))]]]

(***************************************************************************)
(* GenerateFileValidation: the entry points of the structs of one file.    *)
(* Every field's rules are checked by ValidateRules, then every rule but   *)
(* omitempty and (in skip mode) the unknown ones is generated in order;    *)
(* the first error aborts the file.                                        *)
(***************************************************************************)
EntryPoint(name, frags) == [Struct |-> name, Frags |-> frags]

\* the CodeGenContext of one struct: the struct and the type oracle
CodeGenContext(struct, typesInfo) == [Struct |-> struct, TypesInfo |-> typesInfo]

\* the rules of a field that are generated
emittableRules(rules) ==
    SelectSeq(rules, LAMBDA r : r.kind # "unknown" /\ r.kind # "omitempty")

\* HasOmitEmpty
HasOmitEmpty(rules) == \E i \in 1..Len(rules) : rules[i].kind = "omitempty"

\* GetNonOmitEmptyRules
GetNonOmitEmptyRules(rules) == SelectSeq(rules, LAMBDA r : r.kind # "omitempty")

\* the emptiness test of the guard that omitempty puts around the checks
\* of a field: nil pointer, empty collection, empty string, zero number;
\* "none" for a kind that has no such test
guardTest(typeInfo) ==
    IF typeInfo.IsPointer THEN "nil"
    ELSE IF typeInfo.IsSlice THEN "nilOrLen0"
    ELSE IF typeInfo.Kind = "string" THEN "emptyStr"
    ELSE IF typeInfo.Kind \in NumericKinds THEN "zero"
    ELSE "none"

\* if !(<test of r.F>) { <lines> }
Guard(field, test, lines) ==
    [Frag("guard", field, "", FALSE) EXCEPT !.body = lines, !.tests = <<test>>]

\* variant: omitempty puts no guard around the checks
omitEmptyGuardAbsent(g, field, typesInfo) == g

\* the checks g of a field go behind the guard when the field has omitempty
omitEmptyGuard(g, field, typesInfo) ==
    IF g.err # "none" \/ g.frags = <<>> \/ ~HasOmitEmpty(field.Rules)
       \/ guardTest(ResolveTypeInfo(field.Type, typesInfo)) = "none"
    THEN g
    ELSE Code(<<Guard(field.Name, guardTest(ResolveTypeInfo(field.Type, typesInfo)),
                      g.frags)>>)

\* the checks of one field: its rules are checked by ValidateRules, then
\* generated in order
generateField(field, utm, ctx) ==
    IF ValidateRules(field, utm, ctx.TypesInfo) # "none"
    THEN GenError(ValidateRules(field, utm, ctx.TypesInfo))
    ELSE omitEmptyGuard(generateAll(emittableRules(GetNonOmitEmptyRules(field.Rules)), 1,
                                    field, ctx, <<>>),
                        field, ctx.TypesInfo)

RECURSIVE generateFields(_, _, _, _, _)
RECURSIVE appendField(_, _, _, _, _, _)

appendField(g, fields, i, utm, ctx, acc) ==
    IF g.err # "none" THEN g
    ELSE generateFields(fields, i + 1, utm, ctx, acc \o g.frags)

generateFields(fields, i, utm, ctx, acc) ==
    IF i > Len(fields) THEN Code(acc)
    ELSE appendField(generateField(fields[i], utm, ctx), fields, i, utm, ctx, acc)

RECURSIVE generateStructs(_, _, _, _, _)
RECURSIVE appendStruct(_, _, _, _, _, _)

appendStruct(g, structs, i, utm, typesInfo, acc) ==
    IF g.err # "none" THEN [err |-> g.err, code |-> <<>>]
    ELSE generateStructs(structs, i + 1, utm, typesInfo,
                         Append(acc, EntryPoint(structs[i].Name, g.frags)))

generateStructs(structs, i, utm, typesInfo, acc) ==
    IF i > Len(structs) THEN [err |-> "none", code |-> acc]
    ELSE IF ~structs[i].NeedsGen THEN generateStructs(structs, i + 1, utm, typesInfo, acc)
    ELSE appendStruct(generateFields(structs[i].Fields, 1, utm,
                                     CodeGenContext(structs[i], typesInfo), <<>>),
                      structs, i, utm, typesInfo, acc)

GenerateFileValidation(fileInfo, utm, typesInfo) ==
    generateStructs(fileInfo.Structs, 1, utm, typesInfo, <<>>)

(***************************************************************************)
(* The source packages of the generation run                               *)
(***************************************************************************)
SeqsUpTo(S, n) == UNION { [1..k -> S] : k \in 0..n }

SeqsFrom1(S, n) == UNION { [1..k -> S] : k \in 1..n }

FieldDecl(name, type, t) == [Name |-> name, Type |-> type, Tag |-> t]

StructDecl(name, skip, fields) == [Name |-> name, Skip |-> skip, fields |-> fields]

\* a source file: its struct type declarations in order, and the number of
\* its other general declarations (import, const, var)
File(name, others, skip, decls) ==
    [Name |-> name, others |-> others, Skip |-> skip, decls |-> decls]

Wrappers == {"star", "slice", "array"}

\* the leaves of the field types: a struct of the package, a basic type, a
\* struct of another package
GenLeaves == {Ident("B"), Ident("string"), Selector("models", "E")}

GenTypes == { TypeExpr(w, l) : w \in SeqsUpTo(Wrappers, MaxWrap), l \in GenLeaves }

\* the directives of A's field F: with and without dive, rules before and
\* after it, an unknown directive before and after it, and a rule whose
\* emission fails on a struct
GenTags ==
    { <<Seg("required", "")>>,
      <<Seg("min", "1")>>,
      <<Seg("bogus", "")>>,
      <<DiveSeg>>,
      <<Seg("required", ""), DiveSeg>>,
      <<Seg("bogus", ""), DiveSeg>>,
      <<DiveSeg, Seg("required", "")>>,
      <<DiveSeg, Seg("unique", "ID")>>,
      <<DiveSeg, Seg("bogus", "")>> }

\* the directive of B's own field: none, a known rule, an unknown one
OwnTags == {<<EmptySeg>>, <<Seg("required", "")>>, <<Seg("bogus", "")>>}

DeclA(t, g) == StructDecl("A", FALSE, <<FieldDecl("F", t, g)>>)

DeclB(g, skip) ==
    StructDecl("B", skip = "struct", <<FieldDecl("G", TypeExpr(<<>>, Ident("int")), g)>>)

\* where the skip annotation of B stands: nowhere, on B, on B's file
Skips == {"none", "struct", "file"}

\* struct A dives (or not) into its field F; struct B stands in the same
\* file or in a second file of the package
Worlds ==
    { [files |-> <<File("a.go", o, k = "file", <<DeclA(t, g), DeclB(b, k)>>)>>] :
        o \in 0..1, t \in GenTypes, g \in GenTags, b \in OwnTags, k \in Skips }
    \cup
    { [files |-> <<File("a.go", o, FALSE, <<DeclA(t, g)>>),
                   File("b.go", 0, k = "file", <<DeclB(b, k)>>)>>] :
        o \in 0..1, t \in GenTypes, g \in GenTags, b \in OwnTags, k \in Skips }

FileNames(w) == { w.files[i].Name : i \in 1..Len(w.files) }

FileOf(w, name) == w.files[CHOOSE i \in 1..Len(w.files) : w.files[i].Name = name]

Unparsed == [parsed |-> FALSE, Structs |-> <<>>, Skip |-> FALSE]

IdleWorld == [files |-> <<>>]

IdleField == [Type |-> TypeExpr(<<>>, Ident("int")), Rules |-> <<>>, typesInfo |-> FALSE]

IdleRes == [done |-> FALSE, err |-> "none", idx |-> 0]

IdlePc == [stage |-> "idle", f |-> 0, i |-> 0]

ParseIdle == tag = <<EmptySeg>> /\ parsed = [done |-> FALSE, err |-> FALSE, rules |-> <<>>]

GenIdle ==
    /\ world = IdleWorld /\ mode = "package" /\ unknownTagMode = "fail"
    /\ phase = "idle" /\ infos = <<>> /\ pending = {} /\ written = {}
    /\ emitted = <<>> /\ runErr = "none"

RunIdle ==
    /\ rtField = IdleField /\ rtProg = <<>> /\ rtVal = <<>>
    /\ rtPc = IdlePc /\ rtLog = <<>> /\ rtRes = IdleRes

(***************************************************************************)
(* Spec: a generation run.  Generate parses every file of the package,     *)
(* runs the closure pass and then visits the files in map order;           *)
(* GenerateForFiles parses and generates the listed files one by one.      *)
(* Overwrite is on, DryRun is off, no file is a test or generated file.    *)
(***************************************************************************)
Init ==
    /\ world \in Worlds
    /\ mode \in {"package", "files"}
    /\ unknownTagMode \in {"fail", "skip"}
    /\ phase = IF mode = "package" THEN "parse" ELSE "generate"
    /\ infos = [f \in FileNames(world) |-> Unparsed]
    /\ pending = FileNames(world)
    /\ written = {}
    /\ emitted = [f \in FileNames(world) |-> <<>>]
    /\ runErr = "none"
    /\ ParseIdle
    /\ RunIdle

hasValidation(fileInfo) == \E s \in 1..Len(fileInfo.Structs) : fileInfo.Structs[s].NeedsGen

\* ParsePackage, one file of pkg.Syntax at a time, in the order the loader
\* lists them
ParsePackageFile ==
    /\ mode = "package" /\ phase = "parse"
    /\ \E i \in 1..Len(world.files) :
          /\ ~infos[world.files[i].Name].parsed
          /\ infos' = [infos EXCEPT ![world.files[i].Name] =
                          [parsed |-> TRUE, Structs |-> parsePackageFile(world.files[i]),
                           Skip |-> hasFileSkipAnnotation(world.files[i])]]
    /\ UNCHANGED <<world, mode, unknownTagMode, phase, pending, written, emitted, runErr>>
    /\ UNCHANGED <<parseVars, runVars>>

\* the end of ParsePackage: discoverAndMarkDiveStructs(pkgInfo)
ClosurePass ==
    /\ mode = "package" /\ phase = "parse"
    /\ \A f \in DOMAIN infos : infos[f].parsed
    /\ \E order \in Orders(infos) : infos' = discoverAndMarkDiveStructs(infos, order, TRUE)
    /\ phase' = "generate"
    /\ UNCHANGED <<world, mode, unknownTagMode, pending, written, emitted, runErr>>
    /\ UNCHANGED <<parseVars, runVars>>

\* what the body of both file loops does with a parsed file: nothing when
\* no struct needs generation, return the error of GenerateFileValidation,
\* or write the output file
writeOutput(f, g) ==
    IF g.err # "none"
    THEN /\ runErr' = g.err
         /\ phase' = "done"
         /\ UNCHANGED <<written, emitted>>
    ELSE IF g.code = <<>>
    THEN UNCHANGED <<phase, written, emitted, runErr>>
    ELSE /\ written' = written \cup {f}
         /\ emitted' = [emitted EXCEPT ![f] = g.code]
         /\ UNCHANGED <<phase, runErr>>

emitFile(f, fileInfo, typesInfo) ==
    IF ~hasValidation(fileInfo)
    THEN UNCHANGED <<phase, written, emitted, runErr>>
    ELSE writeOutput(f, GenerateFileValidation(fileInfo, unknownTagMode, typesInfo))

\* one iteration of "for _, fileInfo := range pkgInfo.Files" in Generate
GenerateFile(f) ==
    /\ mode = "package" /\ phase = "generate"
    /\ f \in pending
    /\ pending' = pending \ {f}
    /\ emitFile(f, infos[f], TRUE)
    /\ UNCHANGED <<world, mode, unknownTagMode, infos>>
    /\ UNCHANGED <<parseVars, runVars>>

\* one iteration of "for _, filePath := range files" in GenerateForFiles
GenerateForFile(f) ==
    /\ mode = "files" /\ phase = "generate"
    /\ f \in pending
    /\ pending' = pending \ {f}
    /\ LET p == ParseFile(FileOf(world, f))
           fileInfo == [parsed |-> TRUE, Structs |-> p.Structs,
                        Skip |-> hasFileSkipAnnotation(FileOf(world, f))]
       IN IF p.panic
          THEN /\ runErr' = "panic"
               /\ phase' = "done"
               /\ UNCHANGED <<infos, written, emitted>>
          ELSE /\ infos' = [infos EXCEPT ![f] = fileInfo]
               /\ emitFile(f, fileInfo, FALSE)
    /\ UNCHANGED <<world, mode, unknownTagMode>>
    /\ UNCHANGED <<parseVars, runVars>>

\* the loop is over: return nil
Finish ==
    /\ phase = "generate" /\ pending = {}
    /\ phase' = "done"
    /\ UNCHANGED <<world, mode, unknownTagMode, infos, pending, written, emitted, runErr>>
    /\ UNCHANGED <<parseVars, runVars>>

Next ==
    \/ ParsePackageFile
    \/ ClosurePass
    \/ \E f \in pending : GenerateFile(f)
    \/ \E f \in pending : GenerateForFile(f)
    \/ Finish

Spec == Init /\ [][Next]_vars

(***************************************************************************)
(* SpecParse: parseValidationRules on every directive of at most MaxSegs   *)
(* segments over an alphabet of segments                                   *)
(***************************************************************************)
ParseSegs ==
    {EmptySeg, DiveSeg,
     Seg("required", ""),
     Seg("min", "1"), Seg("min", ""),
     Seg("unique", "ID"),
     Seg("regexp", "pkg:Var"), Seg("regexp", "novar"),
     Seg("datetime", ""),
     Seg("eqfield", "Other"),
     Seg("bogus", ""), Seg("pkg:Func", "")}

ParseTags == SeqsFrom1(ParseSegs, MaxSegs)

InitParse ==
    /\ tag \in ParseTags
    /\ parsed = [done |-> FALSE, err |-> FALSE, rules |-> <<>>]
    /\ GenIdle
    /\ RunIdle

\* rules, err := parseValidationRules(validateTag)
Parse ==
    /\ ~parsed.done
    /\ LET r == parseValidationRules(tag)
       IN parsed' = [done |-> TRUE, err |-> r.err, rules |-> r.rules]
    /\ UNCHANGED tag
    /\ UNCHANGED <<genVars, runVars>>

NextParse == Parse

SpecParse == InitParse /\ [][NextParse]_vars

(***************************************************************************)
(* SpecRun and SpecCheck use the variables rtField .. rtRes, each in its    *)
(* own shape.                                                              *)
(*                                                                         *)
(* SpecRun: the code emitted for one dived slice field F of a struct A is  *)
(* executed, statement by statement, on a value of the field.  An element  *)
(* is nil or a record; valid tells whether the element's own Validate()    *)
(* returns nil, ID is its key field.  Indices are counted from 1.          *)
(***************************************************************************)
Element(isNil, valid, id) == [nil |-> isNil, valid |-> valid, ID |-> id]

NilElement == Element(TRUE, TRUE, "")

Records == { Element(FALSE, v, id) : v \in BOOLEAN, id \in {"k1", "k2"} }

\* the values of an element of this slice type
ElementsOf(type) == IF type.wrap = <<"slice", "star">> THEN Records \cup {NilElement} ELSE Records

RunTypes == { TypeExpr(w, l) : w \in {<<"slice">>, <<"slice", "star">>},
                               l \in {Ident("B"), Selector("models", "E")} }

RunTags == { <<DiveSeg>>,
             <<Seg("required", ""), DiveSeg>>,
             <<DiveSeg, Seg("unique", "ID")>>,
             <<Seg("required", ""), DiveSeg, Seg("unique", "ID")>> }

\* slices of primitive elements and directives with element rules
PrimTypes == { TypeExpr(<<"slice">>, Ident("string")), TypeExpr(<<"slice">>, Ident("int")) }

PrimTags == { <<DiveSeg, Seg("min", "1")>>,
              <<DiveSeg, Seg("datetime", "2006-01-02")>>,
              <<DiveSeg, Seg("min", "1"), Seg("datetime", "2006-01-02")>>,
              <<Seg("required", ""), DiveSeg, Seg("min", "1")>> }

\* the fields of the run: a type with a directive
RunCases == (RunTypes \X RunTags) \cup (PrimTypes \X PrimTags)

\* slices checked by unique alone: scalars by their value, records by their
\* value or by the sub-field ID
UniqueTags == { <<Seg("unique", "")>>, <<Seg("unique", "ID")>>,
                <<Seg("required", ""), Seg("unique", "")>> }

UniqueCases ==
    (PrimTypes \X {<<Seg("unique", "")>>, <<Seg("required", ""), Seg("unique", "")>>})
    \cup ({ TypeExpr(w, Ident("B")) : w \in {<<"slice">>, <<"slice", "star">>} }
          \X {<<Seg("unique", "")>>, <<Seg("unique", "ID")>>})

\* the values of an element of the field of this case: a scalar under
\* unique is its key and nothing else
ElementsFor(c) ==
    IF c \in UniqueCases /\ c[1] \in PrimTypes
    THEN { Element(FALSE, TRUE, id) : id \in {"k1", "k2"} }
    ELSE ElementsOf(c[1])

\* what a %d verb prints for an argument that is not the loop index
NotAnIndex == 0 - 1

\* the argument the verb is bound to: the one at the verb's position
ArgOf(frag, verb) ==
    LET at == { k \in 1..Len(frag.verbs) : frag.verbs[k] = verb }
    IN IF at = {} THEN "none"
       ELSE LET k == CHOOSE x \in at : \A y \in at : x <= y
            IN IF k <= Len(frag.args) THEN frag.args[k] ELSE "missing"

\* the index the message of frag shows when the loop variable i is idx
reported(frag, idx) == IF ArgOf(frag, "index") = "i" THEN idx ELSE NotAnIndex

Pc(stage, f, i) == [stage |-> stage, f |-> f, i |-> i]

Event(ev, name, idx) == [ev |-> ev, name |-> name, idx |-> idx]

Result(err, idx) == [done |-> TRUE, err |-> err, idx |-> idx]

InitRun ==
    /\ \E c \in RunCases \cup UniqueCases, o \in BOOLEAN :
          /\ rtField = [Type |-> c[1], Rules |-> parseValidationRules(c[2]).rules,
                        typesInfo |-> o]
          /\ rtVal \in SeqsUpTo(ElementsFor(c), MaxElems)
    /\ rtProg = <<>>
    /\ rtPc = Pc("emit", 0, 0)
    /\ rtLog = <<>>
    /\ rtRes = IdleRes
    /\ ParseIdle
    /\ GenIdle

\* the context of struct A, whose only tagged field is F
RunContext ==
    CodeGenContext(StructInfo("A", <<FieldInfo("F", rtField.Type, rtField.Rules)>>,
                              TRUE, "a.go", FALSE),
                   rtField.typesInfo)

\* the rules of the field are generated in order into the body of Validate()
Emit ==
    /\ rtPc.stage = "emit"
    /\ LET g == generateAll(emittableRules(rtField.Rules), 1,
                            FieldInfo("F", rtField.Type, rtField.Rules),
                            RunContext, <<>>)
       IN /\ rtProg' = g.frags
          /\ rtPc' = IF g.err = "none" THEN Pc("run", 1, 1) ELSE Pc("failed", 0, 0)
    /\ UNCHANGED <<rtField, rtVal, rtLog, rtRes>>
    /\ UNCHANGED <<parseVars, genVars>>

Running == rtPc.stage = "run" /\ ~rtRes.done /\ rtPc.f <= Len(rtProg)

Return(res) ==
    /\ rtRes' = res
    /\ rtPc' = Pc("returned", rtPc.f, rtPc.i)

\* one iteration of the loop of a validateEach fragment
StepValidateEach ==
    /\ Running
    /\ rtProg[rtPc.f].op = "validateEach"
    /\ IF rtPc.i > Len(rtVal)
       THEN /\ rtPc' = Pc("run", rtPc.f + 1, 1)
            /\ UNCHANGED <<rtLog, rtRes>>
       ELSE IF rtProg[rtPc.f].ptr /\ rtVal[rtPc.i].nil
       THEN /\ rtPc' = Pc("run", rtPc.f, rtPc.i + 1)
            /\ UNCHANGED <<rtLog, rtRes>>
       ELSE /\ rtLog' = Append(rtLog, Event("call", "Validate", rtPc.i))
            /\ IF rtVal[rtPc.i].nil THEN Return(Result("panic", rtPc.i))
               ELSE IF ~rtVal[rtPc.i].valid
                    THEN Return(Result("element", reported(rtProg[rtPc.f], rtPc.i)))
               ELSE /\ rtPc' = Pc("run", rtPc.f, rtPc.i + 1)
                    /\ UNCHANGED rtRes
    /\ UNCHANGED <<rtField, rtProg, rtVal>>
    /\ UNCHANGED <<parseVars, genVars>>

\* one iteration of the loop over primitive elements: an element that is
\* not valid fails one of the checks of the body, which returns its error
StepElemLoop ==
    /\ Running
    /\ rtProg[rtPc.f].op = "elemLoop"
    /\ LET body == rtProg[rtPc.f].body
           checks == { j \in 1..Len(body) : body[j].op # "comment" }
       IN IF rtPc.i > Len(rtVal)
          THEN /\ rtPc' = Pc("run", rtPc.f + 1, 1)
               /\ UNCHANGED <<rtLog, rtRes>>
          ELSE IF rtVal[rtPc.i].valid \/ checks = {}
          THEN /\ rtPc' = Pc("run", rtPc.f, rtPc.i + 1)
               /\ rtLog' = Append(rtLog, Event("elem", "pass", rtPc.i))
               /\ UNCHANGED rtRes
          ELSE \E j \in checks :
                  /\ rtLog' = Append(rtLog, Event("elem", body[j].op, rtPc.i))
                  /\ Return(Result("elemRule", reported(body[j], rtPc.i)))
    /\ UNCHANGED <<rtField, rtProg, rtVal>>
    /\ UNCHANGED <<parseVars, genVars>>

\* the key the seen-map of unique is indexed with: the sub-field, or the
\* element itself (fmt.Sprintf("%v", item) when it is not a string; a nil
\* pointer prints as "<nil>")
uniqueKey(elem, subField) == IF subField # "" THEN <<elem.ID>> ELSE <<elem>>

\* index of the first element whose key was already seen, 0 when none;
\* nil elements are skipped when the fragment checks for nil
firstDuplicate(val, skipNil, subField) ==
    LET counted(k) == ~(skipNil /\ val[k].nil)
        dup(k) == counted(k) /\ \E j \in 1..(k - 1) :
                     counted(j) /\ uniqueKey(val[j], subField) = uniqueKey(val[k], subField)
    IN IF \E k \in 1..Len(val) : dup(k)
       THEN CHOOSE k \in 1..Len(val) : dup(k) /\ \A j \in 1..(k - 1) : ~dup(j)
       ELSE 0

\* a check on the field as a whole: required, unique
StepFieldRule ==
    /\ Running
    /\ rtProg[rtPc.f].op \in {"requiredEmpty", "unique"}
    /\ rtLog' = Append(rtLog, Event("rule", rtProg[rtPc.f].op, 0))
    /\ LET frag == rtProg[rtPc.f]
           failed == IF frag.op = "requiredEmpty" THEN Len(rtVal) = 0
                     ELSE firstDuplicate(rtVal, frag.ptr, frag.arg) > 0
       IN IF failed
          THEN Return(Result(frag.op, IF frag.op = "unique"
                                      THEN firstDuplicate(rtVal, frag.ptr, frag.arg)
                                      ELSE 0))
          ELSE /\ rtPc' = Pc("run", rtPc.f + 1, 1)
               /\ UNCHANGED rtRes
    /\ UNCHANGED <<rtField, rtProg, rtVal>>
    /\ UNCHANGED <<parseVars, genVars>>

\* a comment line executes nothing
StepComment ==
    /\ Running
    /\ rtProg[rtPc.f].op = "comment"
    /\ rtPc' = Pc("run", rtPc.f + 1, 1)
    /\ UNCHANGED <<rtField, rtProg, rtVal, rtLog, rtRes>>
    /\ UNCHANGED <<parseVars, genVars>>

\* the end of the entry point: return nil
ReturnNil ==
    /\ rtPc.stage = "run" /\ ~rtRes.done /\ rtPc.f > Len(rtProg)
    /\ Return(Result("none", 0))
    /\ UNCHANGED <<rtField, rtProg, rtVal, rtLog>>
    /\ UNCHANGED <<parseVars, genVars>>

NextRun ==
    \/ Emit
    \/ StepValidateEach
    \/ StepElemLoop
    \/ StepFieldRule
    \/ StepComment
    \/ ReturnNil

SpecRun == InitRun /\ [][NextRun]_vars

(***************************************************************************)
(* SpecCheck: the entry point emitted for a struct R with two fields, F    *)
(* and S, is executed on a value of R.  rtField holds the declaration of   *)
(* R, rtVal the values of F and S, rtLog the checks evaluated so far.  A   *)
(* value is nil (pointer, interface, slice) or holds v: a number, the      *)
(* identity of a string (0 is ""), or the length of a slice.               *)
(***************************************************************************)
Value(isNil, v) == [nil |-> isNil, v |-> v]

Basic(name) == TypeExpr(<<>>, Ident(name))

InterfaceType == TypeExpr(<<>>, Leaf("interface", "", ""))

CheckTypes ==
    { TypeExpr(<<"star">>, Ident("string")), TypeExpr(<<"star">>, Ident("int")),
      TypeExpr(<<"slice">>, Ident("string")), InterfaceType,
      Basic("string"), Basic("int"), Basic("uint"), Basic("float64"), Basic("bool") }

\* the values of a type that is not a pointer
PlainValues(type) ==
    IF type.wrap # <<>>
    THEN {Value(TRUE, 0)} \cup { Value(FALSE, n) : n \in 0..1 }
    ELSE IF type.leaf.k = "interface" THEN {Value(TRUE, 0), Value(FALSE, 1)}
    ELSE IF type.leaf.name = "string" THEN { Value(FALSE, n) : n \in 0..2 }
    ELSE IF type.leaf.name = "bool" THEN { Value(FALSE, n) : n \in 0..1 }
    ELSE { Value(FALSE, n) : n \in 0..MaxNum }

ValuesOf(type) ==
    IF type.wrap # <<>> /\ Head(type.wrap) = "star"
    THEN {Value(TRUE, 0)} \cup PlainValues(Inner(type))
    ELSE PlainValues(type)

\* directives of F that name no other field
OwnRuleTags ==
    { <<Seg("required", "")>>,
      <<Seg("gt", "1")>>, <<Seg("gte", "1")>>, <<Seg("lt", "3")>>, <<Seg("lte", "3")>>,
      <<Seg("gte", "1"), Seg("lte", "3")>>,
      <<Seg("gt", "3"), Seg("lt", "1")>>,
      <<Seg("lt", "1"), Seg("gt", "3")>>,
      <<Seg("omitempty", "")>>,
      <<Seg("omitempty", ""), Seg("required", "")>>,
      <<Seg("required", ""), Seg("omitempty", "")>>,
      <<Seg("omitempty", ""), Seg("gte", "1"), Seg("lte", "3")>> }

\* directives of F that name the field S, or a field X that R does not have
SiblingTags ==
    { <<Seg("eqfield", "S")>>,
      <<Seg("required_without", "S")>>,
      <<Seg("omitempty", ""), Seg("eqfield", "S")>>,
      <<Seg("eqfield", "X")>>,
      <<Seg("required_without", "X")>> }

\* directives of S: none, a rule of its own, the rule that names F
OtherTags == { <<EmptySeg>>, <<Seg("required", "")>>, <<Seg("required_without", "F")>> }

DeclR(t, g, u, h) == StructDecl("R", FALSE, <<FieldDecl("F", t, g), FieldDecl("S", u, h)>>)

CheckCases ==
    { DeclR(t, g, Basic("string"), <<Seg("required", "")>>) :
        t \in CheckTypes, g \in OwnRuleTags }
    \cup
    { DeclR(t, g, u, h) : t \in CheckTypes, g \in SiblingTags,
                          u \in CheckTypes, h \in OtherTags }

\* the declared type of a field of the struct, <<>> when it has no such field
DeclType(decl, name) ==
    LET at == { k \in 1..Len(decl.fields) : decl.fields[k].Name = name }
    IN IF at = {} THEN <<>> ELSE <<decl.fields[CHOOSE k \in at : TRUE].Type>>

IsPtrType(type) == type.wrap # <<>> /\ Head(type.wrap) = "star"

\* the type that is compared: the pointee of a pointer
BaseType(type) == IF IsPtrType(type) THEN Inner(type) ELSE type

IsNumericType(type) == type.wrap = <<>> /\ type.leaf.k = "ident" /\ type.leaf.name \in NumericKinds

\* whether Go accepts the emptiness test on a field of this type
TestCompiles(test, type) ==
    CASE test = "nil"       -> type.wrap # <<>> \/ type.leaf.k = "interface"
      [] test = "nilOrLen0" -> type.wrap # <<>> /\ Head(type.wrap) = "slice"
      [] test = "emptyStr"  -> type = Basic("string")
      [] test = "zero"      -> IsNumericType(type)
      [] OTHER              -> FALSE

\* whether Go accepts the statement in the entry point of a struct declared
\* as decl
RECURSIVE FragCompiles(_, _)
FragCompiles(frag, decl) ==
    LET f == DeclType(decl, frag.field)
        o == DeclType(decl, frag.arg)
    IN CASE frag.op \in {"eqPtrPtr", "eqPtrVal", "eqValPtr", "eqValVal"} ->
              /\ o # <<>>
              /\ frag.op = eqStrategy(IsPtrType(f[1]), IsPtrType(o[1]))
              /\ BaseType(f[1]) = BaseType(o[1])
              /\ BaseType(f[1]).wrap = <<>>
         [] frag.op = "requiredWithout" ->
              /\ o # <<>>
              /\ TestCompiles(frag.tests[1], o[1])
              /\ TestCompiles(frag.tests[2], f[1])
         [] frag.op \in {"gt", "gte", "lt", "lte"} ->
              /\ IsPtrType(f[1]) = frag.ptr
              /\ IsNumericType(BaseType(f[1]))
         [] frag.op = "guard" ->
              \A j \in 1..Len(frag.body) : FragCompiles(frag.body[j], decl)
         [] OTHER -> TRUE

Compiles(prog, decl) == \A j \in 1..Len(prog) : FragCompiles(prog[j], decl)

Digits == <<"0", "1", "2", "3", "4", "5", "6", "7", "8", "9">>

\* the number a one-digit literal denotes
Number(lit) == (CHOOSE n \in 1..Len(Digits) : Digits[n] = lit) - 1

\* whether the emptiness test holds of the value x
TestHolds(test, x) ==
    CASE test = "nil"       -> x.nil
      [] test = "nilOrLen0" -> x.nil \/ x.v = 0
      [] test = "emptyStr"  -> x.v = 0
      [] test = "zero"      -> x.v = 0
      [] OTHER              -> FALSE

\* variant: the pointer/pointer check compares only two non-nil pointers
eqFailsBothNonNilOnly(op, x, y) ==
    CASE op = "eqPtrPtr" -> ~x.nil /\ ~y.nil /\ x.v # y.v
      [] op = "eqPtrVal" -> IF ~x.nil THEN x.v # y.v ELSE TRUE
      [] op = "eqValPtr" -> IF ~y.nil THEN x.v # y.v ELSE TRUE
      [] OTHER           -> x # y

\* whether the check emitted by EqFieldRule.Generate returns its error on
\* the field x and the other field y
eqFails(op, x, y) ==
    CASE op = "eqPtrPtr" -> IF ~x.nil /\ ~y.nil THEN x.v # y.v ELSE x.nil # y.nil
      [] op = "eqPtrVal" -> IF ~x.nil THEN x.v # y.v ELSE TRUE
      [] op = "eqValPtr" -> IF ~y.nil THEN x.v # y.v ELSE TRUE
      [] OTHER           -> x # y

\* whether the comparison emitted for gt, gte, lt, lte returns its error
boundFails(op, v, n) ==
    CASE op = "gt"  -> v <= n
      [] op = "gte" -> v < n
      [] op = "lt"  -> v >= n
      [] OTHER      -> v > n

\* the outcome of one emitted check on the values of the struct: "fail"
\* when it returns its error, "panic" when it dereferences a nil pointer,
\* "pass" when the entry point goes on
outcome(frag, val) ==
    LET x == val[frag.field]
        y == IF frag.arg \in DOMAIN val THEN val[frag.arg] ELSE Value(TRUE, 0)
        failIf(b) == IF b THEN "fail" ELSE "pass"
    IN CASE frag.op = "requiredNil"   -> failIf(x.nil)
         [] frag.op = "requiredEmpty" -> failIf(x.nil \/ x.v = 0)
         [] frag.op = "requiredStr"   -> failIf(x.v = 0)
         [] frag.op = "requiredZero"  -> failIf(x.v = 0)
         [] frag.op \in {"eqPtrPtr", "eqPtrVal", "eqValPtr", "eqValVal"} ->
                failIf(eqFails(frag.op, x, y))
         [] frag.op = "requiredWithout" ->
                failIf(TestHolds(frag.tests[1], y) /\ TestHolds(frag.tests[2], x))
         [] frag.op \in {"gt", "gte", "lt", "lte"} ->
                IF frag.ptr /\ x.nil THEN "panic"
                ELSE failIf(boundFails(frag.op, x.v, Number(frag.arg)))
         [] OTHER -> "pass"

InitCheck ==
    /\ \E c \in CheckCases, o \in BOOLEAN : rtField = [Decl |-> c, typesInfo |-> o]
    /\ rtVal \in [F : ValuesOf(rtField.Decl.fields[1].Type),
                  S : ValuesOf(rtField.Decl.fields[2].Type)]
    /\ rtProg = <<>>
    /\ rtPc = Pc("emit", 0, 0)
    /\ rtLog = <<>>
    /\ rtRes = IdleRes
    /\ ParseIdle
    /\ GenIdle

\* parseStruct on the declaration, then the checks of its fields in order
\* into the body of Validate(); the result is compiled
EmitChecks ==
    /\ rtPc.stage = "emit"
    /\ LET g == generateFields(parseStruct(rtField.Decl, "r.go").Fields, 1, "fail",
                               CodeGenContext(parseStruct(rtField.Decl, "r.go"),
                                              rtField.typesInfo),
                               <<>>)
       IN /\ rtProg' = g.frags
          /\ rtPc' = IF g.err # "none" THEN Pc("failed", 0, 0)
                     ELSE IF ~Compiles(g.frags, rtField.Decl) THEN Pc("nocompile", 0, 0)
                     ELSE Pc("run", 1, 1)
    /\ UNCHANGED <<rtField, rtVal, rtLog, rtRes>>
    /\ UNCHANGED <<parseVars, genVars>>

\* the statement frag is evaluated; next is where the entry point goes on
\* when it passes
Evaluate(frag, next) ==
    /\ rtLog' = Append(rtLog, frag)
    /\ IF outcome(frag, rtVal) = "pass"
       THEN /\ rtPc' = next
            /\ UNCHANGED rtRes
       ELSE Return(Result(outcome(frag, rtVal), 0))

\* one check at the top level of the entry point
StepCheck ==
    /\ Running
    /\ rtProg[rtPc.f].op \notin {"comment", "guard"}
    /\ Evaluate(rtProg[rtPc.f], Pc("run", rtPc.f + 1, 1))
    /\ UNCHANGED <<rtField, rtProg, rtVal>>
    /\ UNCHANGED <<parseVars, genVars>>

\* the guard of omitempty: its body is left out when the field is empty,
\* otherwise its lines are evaluated one by one
StepGuard ==
    /\ Running
    /\ rtProg[rtPc.f].op = "guard"
    /\ LET frag == rtProg[rtPc.f]
           next == IF rtPc.i < Len(frag.body) THEN Pc("run", rtPc.f, rtPc.i + 1)
                   ELSE Pc("run", rtPc.f + 1, 1)
       IN IF TestHolds(frag.tests[1], rtVal[frag.field])
          THEN /\ rtPc' = Pc("run", rtPc.f + 1, 1)
               /\ UNCHANGED <<rtLog, rtRes>>
          ELSE IF frag.body[rtPc.i].op = "comment"
          THEN /\ rtPc' = next
               /\ UNCHANGED <<rtLog, rtRes>>
          ELSE Evaluate(frag.body[rtPc.i], next)
    /\ UNCHANGED <<rtField, rtProg, rtVal>>
    /\ UNCHANGED <<parseVars, genVars>>

NextCheck ==
    \/ EmitChecks
    \/ StepCheck
    \/ StepGuard
    \/ StepComment
    \/ ReturnNil

SpecCheck == InitCheck /\ [][NextCheck]_vars

(***************************************************************************)
(* SpecResolve: ResolveTypeInfo is applied to a type expression, with and  *)
(* without a type oracle, and the descriptor it returns is walked from     *)
(* Elem to Elem.  rtField holds the expression, rtProg the descriptors met *)
(* so far, outermost first.  A rule is then checked and generated for a    *)
(* field of that type.                                                     *)
(***************************************************************************)
\* the leaves of a type expression: identifiers (a struct of the package,
\* built-in names, a named string type), selectors, inline struct, map and
\* interface types, and a function type, which no case of the type switch
\* matches
ResolveLeaves ==
    { Ident("B"), Ident("string"), Ident("byte"), Ident("Str"),
      Selector("models", "E"), Selector("json", "Number"),
      Leaf("struct", "", ""), Leaf("map", "", ""), Leaf("interface", "", ""),
      Leaf("func", "", "") }

ResolveTypes == { TypeExpr(w, l) : w \in SeqsUpTo(Wrappers, MaxWrap), l \in ResolveLeaves }

InitResolve ==
    /\ \E t \in ResolveTypes, o \in BOOLEAN : rtField = [Type |-> t, typesInfo |-> o]
    /\ rtProg = <<>>
    /\ rtVal = <<>>
    /\ rtPc = Pc("resolve", 0, 0)
    /\ rtLog = <<>>
    /\ rtRes = IdleRes
    /\ ParseIdle
    /\ GenIdle

\* typeInfo := ResolveTypeInfo(field.Type, ctx.TypesInfo)
ResolveField ==
    /\ rtPc.stage = "resolve"
    /\ rtProg' = <<ResolveTypeInfo(rtField.Type, rtField.typesInfo)>>
    /\ rtPc' = Pc("walk", 1, 0)
    /\ UNCHANGED <<rtField, rtVal, rtLog, rtRes>>
    /\ UNCHANGED <<parseVars, genVars>>

\* typeInfo.Elem of the descriptor met last
FollowElem ==
    /\ rtPc.stage = "walk"
    /\ rtProg[Len(rtProg)].HasElem
    /\ rtProg' = Append(rtProg, Elem(rtProg[Len(rtProg)], rtField.typesInfo))
    /\ rtPc' = Pc("walk", rtPc.f + 1, 0)
    /\ UNCHANGED <<rtField, rtVal, rtLog, rtRes>>
    /\ UNCHANGED <<parseVars, genVars>>

\* the descriptor met last has no Elem: the walk ends
EndOfElems ==
    /\ rtPc.stage = "walk"
    /\ ~rtProg[Len(rtProg)].HasElem
    /\ rtPc' = Pc("walked", rtPc.f, 0)
    /\ UNCHANGED <<rtField, rtProg, rtVal, rtLog, rtRes>>
    /\ UNCHANGED <<parseVars, genVars>>

\* the rules whose applicability check looks at the kind of the field
BoundedRules ==
    { Rule(k, "1", "") : k \in {"min", "gt", "gte", "lt", "lte"} }

\* a rule is put on a field of the type: ValidateRules checks whether it
\* applies, and the rule's Generate returns code or an error.  rtVal holds
\* the rule, rtLog the verdict of ValidateRules, rtRes that of Generate.
ApplyRule ==
    /\ rtPc.stage = "walked"
    /\ \E rule \in BoundedRules :
          LET field == FieldInfo("F", rtField.Type, <<rule>>)
              ctx == CodeGenContext(StructInfo("R", <<field>>, TRUE, "r.go", FALSE),
                                    rtField.typesInfo)
          IN /\ rtVal' = <<rule>>
             /\ rtLog' = <<ValidateRules(field, "fail", rtField.typesInfo)>>
             /\ rtRes' = [done |-> TRUE, err |-> Generate(rule, field, ctx).err, idx |-> 0]
    /\ rtPc' = Pc("applied", rtPc.f, 0)
    /\ UNCHANGED <<rtField, rtProg>>
    /\ UNCHANGED <<parseVars, genVars>>

NextResolve ==
    \/ ResolveField
    \/ FollowElem
    \/ EndOfElems
    \/ ApplyRule

SpecResolve == InitResolve /\ [][NextResolve]_vars

(***************************************************************************)
(* SpecCtx: one generation context (CodeGenContext) receives a sequence of *)
(* AddImport calls and of uuid / email emissions, which register their     *)
(* pattern with AddRegexpVar.  rtField holds the context, rtRes the last   *)
(* call and what it returned.                                              *)
(***************************************************************************)
UUIDPattern == "^[0-9a-fA-F]{8}-[0-9a-fA-F]{4}-[1-5][0-9a-fA-F]{3}-[89abAB][0-9a-fA-F]{3}-[0-9a-fA-F]{12}$"

EmailPattern == "^[a-zA-Z0-9._%+-]+@[a-zA-Z0-9.-]+\\.[a-zA-Z]{2,}$"

\* hex.EncodeToString(sha256.Sum256([]byte(pattern)))[:8]
hashStr(pattern) ==
    CASE pattern = UUIDPattern  -> "5d285f8c"
      [] pattern = EmailPattern -> "952c0aba"

\* string(rune('0'+counter))
RuneFromZero(counter) ==
    <<"1", "2", "3", "4", "5", "6", "7", "8", "9", ":", ";", "<", "=", ">", "?">>[counter]

\* "this alias is already used for a different package"
alreadyUsed(Imports, alias, pkgPath) ==
    \E path \in DOMAIN Imports : Imports[path] = alias /\ path # pkgPath

\* the loop of AddImport that looks for a unique alias
RECURSIVE uniqueAlias(_, _, _, _, _)
uniqueAlias(Imports, pkgPath, preferredAlias, alias, counter) ==
    IF ~alreadyUsed(Imports, alias, pkgPath)
    THEN alias
    ELSE uniqueAlias(Imports, pkgPath, preferredAlias,
                     preferredAlias \o RuneFromZero(counter), counter + 1)

\* variant: the preferred alias is taken as it is
AddImportPreferredAlias(ctx, pkgPath, preferredAlias) ==
    IF pkgPath \in DOMAIN ctx.Imports
    THEN [ctx |-> ctx, ret |-> ctx.Imports[pkgPath]]
    ELSE [ctx |-> [ctx EXCEPT !.Imports = (pkgPath :> preferredAlias) @@ ctx.Imports],
          ret |-> preferredAlias]

\* CodeGenContext.AddImport: the context after the call and the alias returned
AddImport(ctx, pkgPath, preferredAlias) ==
    IF pkgPath \in DOMAIN ctx.Imports
    THEN [ctx |-> ctx, ret |-> ctx.Imports[pkgPath]]
    ELSE LET alias == uniqueAlias(ctx.Imports, pkgPath, preferredAlias, preferredAlias, 1)
         IN [ctx |-> [ctx EXCEPT !.Imports = (pkgPath :> alias) @@ ctx.Imports],
             ret |-> alias]

\* fmt.Sprintf("var %s = regexp.MustCompile(%q)", varName, pattern)
Declaration(varName, pattern) == [var |-> varName, pattern |-> pattern]

\* the name AddRegexpVar gives to a new pattern
regexpVarName(FilePrefix, prefix, pattern) ==
    IF FilePrefix # ""
    THEN FilePrefix \o "_" \o prefix \o "_" \o hashStr(pattern)
    ELSE prefix \o "_" \o hashStr(pattern)

\* variant: the pattern is declared again although it has a variable
AddRegexpVarWithoutLookup(ctx, pattern, prefix) ==
    LET varName == regexpVarName(ctx.FilePrefix, prefix, pattern)
    IN [ctx |-> [ctx EXCEPT !.RegexpVars = (pattern :> varName) @@ ctx.RegexpVars,
                            !.RegexpBuffer = Append(ctx.RegexpBuffer,
                                                    Declaration(varName, pattern))],
        ret |-> varName]

\* CodeGenContext.AddRegexpVar: the context after the call and the variable
\* name returned
AddRegexpVar(ctx, pattern, prefix) ==
    IF pattern \in DOMAIN ctx.RegexpVars
    THEN [ctx |-> ctx, ret |-> ctx.RegexpVars[pattern]]
    ELSE LET varName == regexpVarName(ctx.FilePrefix, prefix, pattern)
         IN [ctx |-> [ctx EXCEPT !.RegexpVars = (pattern :> varName) @@ ctx.RegexpVars,
                                 !.RegexpBuffer = Append(ctx.RegexpBuffer,
                                                         Declaration(varName, pattern))],
             ret |-> varName]

\* "only applicable to string types": the test UUIDRule.Generate and
\* EmailRule.Generate make on a type that is not a slice
notStringType(typeInfo, typesInfo) ==
    /\ typeInfo.Kind # "string"
    /\ \/ typeInfo.IsPointer /\ typeInfo.HasElem /\ Elem(typeInfo, typesInfo).Kind # "string"
       \/ ~typeInfo.IsPointer

\* UUIDRule.Generate: the context after the call, whether it returned an
\* error, and the pattern variable the emitted check calls
UUIDGenerate(ctx, field) ==
    LET typeInfo == ResolveTypeInfo(field.Type, ctx.TypesInfo)
    IN IF notStringType(typeInfo, ctx.TypesInfo)
       THEN [ctx |-> ctx, err |-> TRUE, ret |-> ""]
       ELSE LET c1 == AddImport(ctx, "regexp", "regexp").ctx
                r  == AddRegexpVar(c1, UUIDPattern, "uuidRegexp")
            IN [ctx |-> r.ctx, err |-> FALSE, ret |-> r.ret]

\* EmailRule.Generate: the pattern is registered before the type is looked at
EmailGenerate(ctx, field) ==
    LET typeInfo == ResolveTypeInfo(field.Type, ctx.TypesInfo)
        c1 == AddImport(ctx, "regexp", "regexp").ctx
        r  == AddRegexpVar(c1, EmailPattern, "emailRegexp")
        elemType == Elem(typeInfo, ctx.TypesInfo)
        err == IF typeInfo.IsSlice
               THEN ~typeInfo.HasElem \/ (~elemType.IsPointer /\ elemType.Kind # "string")
               ELSE notStringType(typeInfo, ctx.TypesInfo)
    IN [ctx |-> r.ctx, err |-> err, ret |-> IF err THEN "" ELSE r.ret]

\* import paths and the aliases their callers prefer (the last segment of
\* the path)
ImportPaths == {"a/v", "b/v", "c/v1", "regexp"}

PreferredAliases == {"v", "v1", "regexp"}

FilePrefixes == {"", "user"}

CtxTypes ==
    { TypeExpr(w, Ident(n)) :
        w \in {<<>>, <<"star">>, <<"slice">>, <<"slice", "star">>}, n \in {"string", "int"} }

Called(call, key, err, ret) == [call |-> call, key |-> key, err |-> err, ret |-> ret]

NoCall == Called("", "", FALSE, "")

InitCtx ==
    /\ \E p \in FilePrefixes, o \in BOOLEAN :
          rtField = [Imports |-> <<>>, RegexpVars |-> <<>>, RegexpBuffer |-> <<>>,
                     FilePrefix |-> p, TypesInfo |-> o]
    /\ rtProg = <<>>
    /\ rtVal = <<>>
    /\ rtPc = Pc("ctx", 0, 0)
    /\ rtLog = <<>>
    /\ rtRes = NoCall
    /\ ParseIdle
    /\ GenIdle

CallAddImport ==
    /\ rtPc.stage = "ctx"
    /\ \E pkgPath \in ImportPaths, preferredAlias \in PreferredAliases :
          LET r == AddImport(rtField, pkgPath, preferredAlias)
          IN /\ rtField' = r.ctx
             /\ rtRes' = Called("AddImport", pkgPath, FALSE, r.ret)
    /\ UNCHANGED <<rtProg, rtVal, rtPc, rtLog>>
    /\ UNCHANGED <<parseVars, genVars>>

CallUUIDGenerate ==
    /\ rtPc.stage = "ctx"
    /\ \E t \in CtxTypes :
          LET r == UUIDGenerate(rtField, FieldInfo("F", t, <<Rule("uuid", "", "")>>))
          IN /\ rtField' = r.ctx
             /\ rtRes' = Called("uuid", UUIDPattern, r.err, r.ret)
    /\ UNCHANGED <<rtProg, rtVal, rtPc, rtLog>>
    /\ UNCHANGED <<parseVars, genVars>>

CallEmailGenerate ==
    /\ rtPc.stage = "ctx"
    /\ \E t \in CtxTypes :
          LET r == EmailGenerate(rtField, FieldInfo("F", t, <<Rule("email", "", "")>>))
          IN /\ rtField' = r.ctx
             /\ rtRes' = Called("email", EmailPattern, r.err, r.ret)
    /\ UNCHANGED <<rtProg, rtVal, rtPc, rtLog>>
    /\ UNCHANGED <<parseVars, genVars>>

NextCtx ==
    \/ CallAddImport
    \/ CallUUIDGenerate
    \/ CallEmailGenerate

SpecCtx == InitCtx /\ [][NextCtx]_vars

(***************************************************************************)
(* Properties of the directive parser (SpecParse)                          *)
(***************************************************************************)
HasDiveSeg(t) == \E i \in 1..Len(t) : t[i] = DiveSeg

FirstDive(t) == CHOOSE i \in 1..Len(t) : t[i] = DiveSeg /\ \A j \in 1..(i - 1) : t[j] # DiveSeg

\* the non-empty segments of t[lo..hi], in order
Segments(t, lo, hi) == SelectSeq(SubSeq(t, lo, hi), LAMBDA x : x # EmptySeg)

\* the rule list is, element by element, the rules of the segments
RulesOf(rules, segs) ==
    /\ Len(rules) = Len(segs)
    /\ \A k \in 1..Len(segs) : rules[k] = parseValidationRule(segs[k]).rule

SegCount(t) == IF t = <<EmptySeg>> THEN 0 ELSE Len(t)

NoEmptySegment(t) == t = <<EmptySeg>> \/ \A i \in 1..Len(t) : t[i] # EmptySeg

\* C6: parseValidationRules returns as many rules as the tag has
\* comma-separated segments (zero for the empty tag), also when one of them
\* is dive.  Stated for directives without an empty segment between commas.
C6_OneRulePerSegment ==
    (parsed.done /\ ~parsed.err /\ NoEmptySegment(tag)) => Len(parsed.rules) = SegCount(tag)

ParamRules == {"min", "max", "gt", "lt", "gte", "lte", "datetime", "eqfield",
               "required_without", "regexp"}

MissingParam(seg) == seg.name \in ParamRules /\ seg.param = ""

BadForm(seg) == seg.name = "regexp" /\ seg.param # "" /\ ~HasColon(seg.param)

\* C7: a directive with a segment that names a parameter-taking rule without
\* a parameter, or whose pkg:Ident parameter is malformed, fails to parse.
C7_MissingParamFails ==
    (parsed.done /\ \E i \in 1..Len(tag) : MissingParam(tag[i]) \/ BadForm(tag[i]))
        => parsed.err

(***************************************************************************)
(* Properties of the generation run (Spec)                                 *)
(***************************************************************************)
Declared(name) ==
    \E i \in 1..Len(world.files) : \E d \in 1..Len(world.files[i].decls) :
        world.files[i].decls[d].Name = name

\* the parsed StructInfos of the run, with the file they stand in
AllStructs ==
    UNION { { [file |-> f, info |-> infos[f].Structs[s]] : s \in 1..Len(infos[f].Structs) } :
            f \in { g \in DOMAIN infos : infos[g].parsed } }

AllFields(info) == { info.Fields[x] : x \in 1..Len(info.Fields) }

\* the record a dive on a field of this type recurses into: the field type
\* itself, the pointee of a pointer, the element of a slice (or the pointee
\* of a slice of pointers); NoLeaf for every other shape of type
NoLeaf == Leaf("none", "", "")

DiveTarget(type) ==
    IF type.wrap \in {<<>>, <<"star">>, <<"slice">>, <<"slice", "star">>}
       /\ type.leaf.k \in {"ident", "selector"}
       /\ ~(type.leaf.k = "ident" /\ type.leaf.name \in BasicNames)
    THEN type.leaf ELSE NoLeaf

IsLocalRecord(leaf) == leaf.k = "ident" /\ Declared(leaf.name)

IsExternalRecord(leaf) == leaf.k = "selector"

IsCall(frag) == frag.op \in {"validateEach", "validatePtr", "validateField"}

\* the declared type whose entry point a call fragment invokes: the static
\* type of the receiver expression r.F or r.F[i], when that is a named
\* record or a pointer to one
Callee(frag, type) ==
    IF \/ frag.op = "validateEach" /\ type.wrap \in {<<"slice">>, <<"slice", "star">>}
       \/ frag.op = "validatePtr" /\ type.wrap = <<"star">>
       \/ frag.op = "validateField" /\ type.wrap = <<>>
    THEN DiveTarget(type) ELSE NoLeaf

\* the entry-point calls in the text written so far: [file, caller, callee]
EmittedCalls ==
    UNION { UNION { { [file |-> f, caller |-> emitted[f][e].Struct,
                       callee |-> Callee(emitted[f][e].Frags[k], fld.Type)] :
                        <<k, fld>> \in { p \in (1..Len(emitted[f][e].Frags)) \X
                                               UNION { AllFields(r.info) :
                                                       r \in { q \in AllStructs :
                                                               q.info.Name = emitted[f][e].Struct } } :
                                          /\ IsCall(emitted[f][e].Frags[p[1]])
                                          /\ emitted[f][e].Frags[p[1]].field = p[2].Name } } :
                    e \in 1..Len(emitted[f]) } :
            f \in DOMAIN emitted }

\* C2: in every run, package mode and file-list mode, a call that dive
\* emits to the entry point of a type declared in the unit is a call to a
\* record with NeedsGen = TRUE.
C2_DiveCalleeIsGenerated ==
    \A c \in EmittedCalls :
        IsLocalRecord(c.callee) =>
            \A t \in AllStructs : t.info.Name = c.callee.name => t.info.NeedsGen

IsUnknownSeg(seg) ==
    /\ seg # EmptySeg
    /\ ~parseValidationRule(seg).err
    /\ parseValidationRule(seg).rule.kind = "unknown"

\* some field of some record of the unit carries an unknown directive
\* among its field-level rules (before dive, or without any dive)
HasUnknownDirective ==
    \E i \in 1..Len(world.files) : \E d \in 1..Len(world.files[i].decls) :
        \E x \in 1..Len(world.files[i].decls[d].fields) :
            LET t == world.files[i].decls[d].fields[x].Tag
            IN \E k \in 1..Len(t) :
                  /\ IsUnknownSeg(t[k])
                  /\ \A j \in 1..(k - 1) : t[j] # DiveSeg

\* the errors of a run that name an unknown tag
UnknownTagErrors == {"unknownTag", "unknownGenerate"}

\* C3: in fail mode, a unit with an unknown directive on any field makes the
\* run return an error naming the tag, and no output file of the unit has been
\* written when it returns, whatever the order the files are visited in.
\* Stated for Generate, where the unit is the package.
C3_FailModeWritesNothing ==
    (mode = "package" /\ phase = "done" /\ unknownTagMode = "fail" /\ HasUnknownDirective) =>
        (runErr \in UnknownTagErrors /\ written = {})

\* C4: in skip mode an unknown directive, wherever it stands in the
\* directive (before or after dive), never makes generation fail.
C4_SkipModeNeverFails ==
    unknownTagMode = "skip" => runErr \notin UnknownTagErrors

\* C9: no call is emitted to the entry point of a type defined outside the
\* generation unit.
C9_NoCallToExternalType ==
    \A c \in EmittedCalls : ~IsExternalRecord(c.callee)

\* the records under a skip annotation, their own or their file's
Skipped == { r \in AllStructs : r.info.Skip \/ infos[r.file].Skip }

\* C13: a record carrying the skip annotation, on itself or on its file, has
\* NeedsGen = FALSE after parsing and after the closure pass, whatever
\* rules it has and whoever dives into it.
C13_SkipForcesNoGeneration ==
    \A r \in Skipped : ~r.info.NeedsGen

\* a string or a pointer to a string: neither a collection, nor a record,
\* nor a pointer to a record
IsStringOrPtr(type) == type.wrap \in {<<>>, <<"star">>} /\ type.leaf = Ident("string")

\* the fields with a dive rule on a string or a pointer to a string
DiveOnString ==
    { <<r, fld>> \in UNION { {r} \X AllFields(r.info) : r \in AllStructs } :
        HasDive(fld) /\ IsStringOrPtr(fld.Type) }

\* C12: dive on a field whose kind is neither a collection, a pointer to a
\* record, nor a record (a string, a pointer to a string) is fatal: the run
\* ends with an error and no call to an entry point is emitted for the field.
C12_DiveOnStringIsFatal ==
    /\ (phase = "done" /\ DiveOnString # {}) => runErr # "none"
    /\ \A p \in DiveOnString : \A e \in 1..Len(emitted[p[1].file]) :
          emitted[p[1].file][e].Struct = p[1].info.Name =>
             \A k \in 1..Len(emitted[p[1].file][e].Frags) :
                ~(/\ IsCall(emitted[p[1].file][e].Frags[k])
                  /\ emitted[p[1].file][e].Frags[k].field = p[2].Name)

(***************************************************************************)
(* Properties of the emitted dive code (SpecRun)                           *)
(***************************************************************************)
IsLocalSlice(type) ==
    type.wrap \in {<<"slice">>, <<"slice", "star">>} /\ type.leaf = Ident("B")

IsExternalSlice(type) ==
    type.wrap \in {<<"slice">>, <<"slice", "star">>} /\ type.leaf.k = "selector"

Calls == SelectSeq(rtLog, LAMBDA e : e.ev = "call")

\* the checks of the rules that follow dive in the directive
PostDiveOps ==
    { IF r.kind = "required" THEN "requiredEmpty" ELSE r.kind :
        r \in UNION { { rtField.Rules[k].elems[j] : j \in 1..Len(rtField.Rules[k].elems) } :
                      k \in 1..Len(rtField.Rules) } }

\* the rules before dive pass on the value
PreDivePasses ==
    \A k \in 1..Len(rtField.Rules) : rtField.Rules[k].kind = "required" => Len(rtVal) > 0

Failing == { k \in 1..Len(rtVal) : ~rtVal[k].nil /\ ~rtVal[k].valid }

NonNil == { k \in 1..Len(rtVal) : ~rtVal[k].nil }

IsPrimSlice(type) == type \in PrimTypes

\* the checks a rule of this kind can emit
OpsOf(kind) == IF kind = "min" THEN {"minLen", "minNum"} ELSE {kind}

ElemLoops == SelectSeq(rtProg, LAMBDA f : f.op = "elemLoop")

Invalid == { k \in 1..Len(rtVal) : ~rtVal[k].valid }

\* C11: for dive on a slice of primitive elements followed by element
\* rules, the emitted code is one loop whose body holds the check of every
\* post-dive rule on the loop variable, and every error the loop returns
\* shows the index of the failing element in the index position of its
\* message, whatever other arguments the message has.
C11_ElementLoopIndex ==
    (IsPrimSlice(rtField.Type) /\ HasDive(rtField) /\ rtPc.stage \in {"run", "returned"}) =>
        /\ Len(ElemLoops) = 1
        /\ \A k \in 1..Len(rtField.Rules) :
              rtField.Rules[k].kind = "dive" =>
                 /\ Len(ElemLoops[1].body) = Len(rtField.Rules[k].elems)
                 /\ \A j \in 1..Len(ElemLoops[1].body) :
                       /\ ElemLoops[1].body[j].op \in OpsOf(rtField.Rules[k].elems[j].kind)
                       /\ ElemLoops[1].body[j].field = "elem"
        /\ (rtRes.done /\ rtRes.err = "elemRule") =>
              /\ rtRes.idx \in Invalid
              /\ \A k \in Invalid : rtRes.idx <= k

\* the field is checked by unique and not dived into
UniqueOnly == ~HasDive(rtField) /\ \E k \in 1..Len(rtField.Rules) : rtField.Rules[k].kind = "unique"

\* the sub-field unique is keyed by, "" for the element value
UniqueParam == rtField.Rules[CHOOSE k \in 1..Len(rtField.Rules) : rtField.Rules[k].kind = "unique"].p1

\* the key of element k: its value, or the value of the named sub-field
KeyOf(k) == IF UniqueParam = "" THEN [nil |-> FALSE, ID |-> rtVal[k].ID, valid |-> rtVal[k].valid]
            ELSE [nil |-> FALSE, ID |-> rtVal[k].ID, valid |-> TRUE]

\* the elements whose key was already seen at an earlier element, nil
\* pointer elements taking no part
SeenBefore ==
    { k \in NonNil : \E j \in NonNil : j < k /\ KeyOf(j) = KeyOf(k) }

\* C21: the check emitted for `unique` fails exactly when two elements have
\* the same key (the element value, or the value of the named sub-field),
\* reports the index of the first element whose key was already seen, and
\* skips nil pointer elements without failing.
C21_UniqueFirstDuplicate ==
    (UniqueOnly /\ rtRes.done /\ rtRes.err \notin {"requiredEmpty"}) =>
        IF SeenBefore = {} THEN rtRes.err = "none"
        ELSE /\ rtRes.err = "unique"
             /\ rtRes.idx \in SeenBefore
             /\ \A k \in SeenBefore : rtRes.idx <= k

(***************************************************************************)
(* Properties of the emitted field checks (SpecCheck)                      *)
(***************************************************************************)
TypeF == rtField.Decl.fields[1].Type

TypeS == rtField.Decl.fields[2].Type

TagF == rtField.Decl.fields[1].Tag

TagS == rtField.Decl.fields[2].Tag

Emitted == rtPc.stage \in {"run", "returned"}

Returned == rtPc.stage = "returned"

\* the statement the entry point stands at
Current ==
    IF rtProg[rtPc.f].op = "guard" THEN rtProg[rtPc.f].body[rtPc.i] ELSE rtProg[rtPc.f]

\* the entry point returned the error of a check of this field
FailedBy(field) == Returned /\ rtRes.err = "fail" /\ Current.field = field

\* the checks emitted for a field, those behind a guard included
RECURSIVE checksIn(_, _)
checksIn(prog, field) ==
    IF prog = <<>> THEN <<>>
    ELSE (IF Head(prog).op = "guard" THEN checksIn(Head(prog).body, field)
          ELSE IF Head(prog).op # "comment" /\ Head(prog).field = field THEN <<Head(prog)>>
          ELSE <<>>) \o checksIn(Tail(prog), field)

\* the zero value of the kind: nil for a pointer and an interface, nil or
\* no element for a slice, "" for a string, 0 for a number
IsZero(type, x) ==
    IF IsPtrType(type) \/ type.leaf.k = "interface" THEN x.nil
    ELSE IF type.wrap # <<>> THEN x.nil \/ x.v = 0
    ELSE x.v = 0

\* C14: the check emitted for `required` fails exactly on the zero value
\* of the field's kind (nil for pointer and interface, nil or length 0 for
\* a slice, "" for a string, 0 for a number); for bool no check is emitted.
C14_RequiredFailsOnZero ==
    (TagF = <<Seg("required", "")>> /\ Returned) =>
        IF TypeF = Basic("bool") THEN checksIn(rtProg, "F") = <<>>
        ELSE FailedBy("F") <=> IsZero(TypeF, rtVal.F)

EqFieldS == <<Seg("eqfield", "S")>>

\* the pass condition of the eqfield matrix for the declared sides
EqMatrixPasses(typeF, typeS, x, y) ==
    IF IsPtrType(typeF) /\ IsPtrType(typeS)
    THEN (x.nil /\ y.nil) \/ (~x.nil /\ ~y.nil /\ x.v = y.v)
    ELSE IF IsPtrType(typeF) THEN ~x.nil /\ x.v = y.v
    ELSE IF IsPtrType(typeS) THEN ~y.nil /\ x.v = y.v
    ELSE x = y

\* C15: the check emitted for `eqfield` passes exactly when: (pointer,
\* pointer) both nil or both non-nil with equal pointees; (pointer, value)
\* and (value, pointer) the pointer side non-nil and its pointee equal to
\* the value side; (value, value) the two values equal.
C15_EqFieldMatrix ==
    (TagF = EqFieldS /\ Returned) =>
        (~FailedBy("F") <=> EqMatrixPasses(TypeF, TypeS, rtVal.F, rtVal.S))

\* a nil pointer compared with a non-nil pointer: the check has failed
C15_Witness ==
    /\ TagF = EqFieldS /\ FailedBy("F")
    /\ IsPtrType(TypeF) /\ IsPtrType(TypeS)
    /\ rtVal.F.nil /\ ~rtVal.S.nil

RequiredWithoutS == <<Seg("required_without", "S")>>

\* generation has ended without an error
Generated == rtPc.stage \in {"run", "returned", "nocompile"}

\* the check the declared type of S calls for
SiblingCheckOk(frag) ==
    CASE frag.op = "requiredWithout" ->
             frag.tests[1] = otherFieldIsEmpty(ResolveTypeInfo(TypeS, rtField.typesInfo))
      [] OTHER -> frag.op = eqStrategy(IsPtrType(TypeF), IsPtrType(TypeS))

\* C16: the comparison strategy of eqfield and the sibling emptiness test
\* of required_without are chosen from the sibling's declared type, also
\* when the sibling carries no validation directive.
C16_SiblingTypeIsDeclaredType ==
    (TagF \in {EqFieldS, RequiredWithoutS} /\ Generated) =>
        \A j \in 1..Len(checksIn(rtProg, "F")) : SiblingCheckOk(checksIn(rtProg, "F")[j])

\* directives that name a field R does not have
UnresolvedTags == { <<Seg("eqfield", "X")>>, <<Seg("required_without", "X")>> }

\* the check emitted for a sibling of the type of F itself
SameTypeCheck(frag) ==
    CASE frag.op = "requiredWithout" ->
             frag.tests[1] = otherFieldIsEmpty(ResolveTypeInfo(TypeF, rtField.typesInfo))
      [] OTHER -> frag.op = eqStrategy(IsPtrType(TypeF), IsPtrType(TypeF))

\* C17: when eqfield or required_without names a field that cannot be
\* found, generation does not fail and the emitted check is the one for a
\* sibling whose type is the type of the current field.
C17_UnresolvedSiblingSameType ==
    (TagF \in UnresolvedTags /\ rtPc.stage # "emit") =>
        /\ Generated
        /\ \A j \in 1..Len(checksIn(rtProg, "F")) : SameTypeCheck(checksIn(rtProg, "F")[j])

\* C18: the check emitted for `required_without=S` fails exactly when S is
\* empty and the field is empty, each side's emptiness being the zero value
\* `required` tests for its kind (bool, for which required has no test, is
\* left out).
C18_RequiredWithoutBothEmpty ==
    (/\ TagF = RequiredWithoutS /\ TagS # <<EmptySeg>>
     /\ Basic("bool") \notin {TypeF, TypeS}
     /\ Returned) =>
        (FailedBy("F") <=> (IsZero(TypeS, rtVal.S) /\ IsZero(TypeF, rtVal.F)))

OmitEmptySeg == Seg("omitempty", "")

CarriesOmitEmpty(t) == \E i \in 1..Len(t) : t[i] = OmitEmptySeg

\* the kinds whose empty value the claim lists: pointer, collection,
\* string, number
HasEmptyValue(type) ==
    type.wrap # <<>> \/ type = Basic("string") \/ IsNumericType(type)

\* the checks of this field that have been evaluated
Evaluated(field) == SelectSeq(rtLog, LAMBDA frag : frag.field = field)

BoundRules == {"gt", "gte", "lt", "lte"}

\* a directive made of bound rules only
IsBoundTag(t) == \A i \in 1..Len(t) : t[i].name \in BoundRules

\* the rule of this segment is violated by the number v
Violates(seg, v) ==
    CASE seg.name = "gt"  -> v <= Number(seg.param)
      [] seg.name = "gte" -> v < Number(seg.param)
      [] seg.name = "lt"  -> v >= Number(seg.param)
      [] OTHER            -> v > Number(seg.param)

Violated(t, v) == { i \in 1..Len(t) : Violates(t[i], v) }

FirstViolated(t, v) == CHOOSE i \in Violated(t, v) : \A j \in Violated(t, v) : i <= j

\* the rule and the bound of each check, as a directive segment
AsSegments(frags) == [j \in 1..Len(frags) |-> Seg(frags[j].op, frags[j].arg)]

\* C20: for a numeric field with value v the emitted checks fail exactly
\* when gt=N and v <= N, gte=N and v < N, lt=N and v >= N, lte=N and v > N;
\* several such rules are evaluated in directive order and the error is
\* that of the first violated rule, with that rule's bound.
C20_BoundsInDirectiveOrder ==
    (/\ IsBoundTag(TagF) /\ IsNumericType(BaseType(TypeF)) /\ ~rtVal.F.nil
     /\ Returned) =>
        IF Violated(TagF, rtVal.F.v) = {}
        THEN ~FailedBy("F") /\ AsSegments(Evaluated("F")) = TagF
        ELSE /\ FailedBy("F")
             /\ Seg(Current.op, Current.arg) = TagF[FirstViolated(TagF, rtVal.F.v)]
             /\ AsSegments(Evaluated("F")) = SubSeq(TagF, 1, FirstViolated(TagF, rtVal.F.v))

\* `gt=3,lt=1` on the value 2 violates both rules: the error returned is
\* the one of gt
C20_Witness ==
    /\ TagF = <<Seg("gt", "3"), Seg("lt", "1")>>
    /\ rtVal.F = Value(FALSE, 2)
    /\ FailedBy("F") /\ Current.op = "gt" /\ Current.arg = "3"

(***************************************************************************)
(* Properties of type resolution (SpecResolve)                             *)
(***************************************************************************)
TypeKinds ==
    BasicNames \cup {"unknown", "jsonnumber", "slice", "array", "map", "struct",
                     "pointer", "interface"}

\* C22: type resolution returns a descriptor for every type expression
\* (Kind unknown at worst), and every descriptor of Kind pointer, slice or
\* array it returns, at any nesting depth, carries an Elem; the walk from
\* Elem to Elem ends at the leaf of the expression.
C22_ElemAtEveryDepth ==
    /\ \A k \in 1..Len(rtProg) :
          /\ rtProg[k].Kind \in TypeKinds
          /\ rtProg[k].Kind \in {"pointer", "slice", "array"} => rtProg[k].HasElem
    /\ rtPc.stage = "walked" => Len(rtProg) = Len(rtField.Type.wrap) + 1

\* an array of pointers to a function type: three descriptors, the last
\* one of Kind unknown
C22_Witness ==
    /\ rtPc.stage = "walked"
    /\ rtField.Type = TypeExpr(<<"array", "star">>, Leaf("func", "", ""))
    /\ Len(rtProg) = 3
    /\ rtProg[1].Kind = "array" /\ rtProg[2].Kind = "pointer" /\ rtProg[3].Kind = "unknown"

\* the descriptor is that of a package-qualified type other than json.Number
IsQualified(typeInfo) ==
    /\ typeInfo.UnderlyingGo.wrap = <<>>
    /\ typeInfo.UnderlyingGo.leaf.k = "selector"
    /\ typeInfo.UnderlyingGo.leaf # Selector("json", "Number")

\* C23: for every package-qualified type expression other than json.Number
\* type resolution returns Kind struct with the import path of the declaring
\* package, with a type oracle and without one.
C23_QualifiedTypeHasPackage ==
    \A k \in 1..Len(rtProg) :
        IsQualified(rtProg[k]) => (rtProg[k].Kind = "struct" /\ rtProg[k].PkgPath # "")

(***************************************************************************)
(* Properties of the generation context (SpecCtx)                          *)
(***************************************************************************)
Registered(ctx) == DOMAIN ctx.RegexpVars

DeclarationsOf(ctx, pattern) ==
    { i \in 1..Len(ctx.RegexpBuffer) : ctx.RegexpBuffer[i].pattern = pattern }

OneSymbolPerPattern(ctx) ==
    /\ \A p, q \in Registered(ctx) : p # q => ctx.RegexpVars[p] # ctx.RegexpVars[q]
    /\ \A p \in Registered(ctx) :
          /\ Cardinality(DeclarationsOf(ctx, p)) = 1
          /\ \A i \in DeclarationsOf(ctx, p) : ctx.RegexpBuffer[i].var = ctx.RegexpVars[p]
    /\ Len(ctx.RegexpBuffer) = Cardinality(Registered(ctx))

\* C24: within one context, whatever uuid and email emissions came before,
\* a pattern keeps the symbol it was given and an emission is handed that
\* symbol, two different patterns have different symbols, and the context
\* holds exactly one declaration per registered pattern.
C24_OneSymbolPerPattern ==
    [][ /\ \A p \in Registered(rtField) :
              p \in Registered(rtField') /\ rtField'.RegexpVars[p] = rtField.RegexpVars[p]
        /\ (rtRes'.call \in {"uuid", "email"} /\ ~rtRes'.err)
              => rtRes'.ret = rtField'.RegexpVars[rtRes'.key]
        /\ OneSymbolPerPattern(rtField') ]_vars

\* both patterns are registered, uuid first, and a uuid emission came after
\* the email one: it was handed the symbol declared at the start
C24_Witness ==
    /\ rtPc.stage = "ctx"
    /\ Len(rtField.RegexpBuffer) = 2
    /\ rtField.RegexpBuffer[1].pattern = UUIDPattern
    /\ rtField.RegexpBuffer[2].pattern = EmailPattern
    /\ rtRes.call = "uuid" /\ ~rtRes.err
    /\ rtRes.ret = rtField.RegexpBuffer[1].var

\* C25: after any sequence of AddImport calls a path has one alias, which
\* is the one it was first given and the one every later call returns, and
\* no two paths have the same alias.
C25_AliasesAreStableAndDistinct ==
    [][ /\ \A p \in DOMAIN rtField.Imports :
              p \in DOMAIN rtField'.Imports /\ rtField'.Imports[p] = rtField.Imports[p]
        /\ rtRes'.call = "AddImport" => rtRes'.ret = rtField'.Imports[rtRes'.key]
        /\ \A p, q \in DOMAIN rtField'.Imports :
              p # q => rtField'.Imports[p] # rtField'.Imports[q] ]_vars

\* two paths preferred the alias of a third: each was given another one
C25_Witness ==
    /\ rtPc.stage = "ctx"
    /\ rtRes.call = "AddImport"
    /\ {"a/v", "b/v", "c/v1"} \subseteq DOMAIN rtField.Imports
    /\ rtField.Imports["a/v"] = "v"
    /\ rtField.Imports["b/v"] = "v1"
    /\ rtField.Imports["c/v1"] = "v11"

\* what the run's driver gets from GenerateFileValidation for file f: in
\* package mode on the records as the closure pass left them, in file-list
\* mode on the records ParseFile returns
FileInfoOf(f) ==
    IF mode = "package" THEN infos[f]
    ELSE [parsed |-> TRUE, Structs |-> ParseFile(FileOf(world, f)).Structs,
          Skip |-> hasFileSkipAnnotation(FileOf(world, f))]

EmissionSucceeds(f) ==
    /\ mode = "files" => ~ParseFile(FileOf(world, f)).panic
    /\ hasValidation(FileInfoOf(f))
    /\ LET g == GenerateFileValidation(FileInfoOf(f), unknownTagMode, mode = "package")
       IN g.err = "none" /\ g.code # <<>>

\* the run returned the error of an emission that is not an unknown tag
EmissionFailed == phase = "done" /\ runErr \notin ({"none", "panic"} \cup UnknownTagErrors)

AllParsed == \A f \in DOMAIN infos : infos[f].parsed

\* the step is the closure pass at the end of ParsePackage
ClosureStep == mode = "package" /\ phase = "parse" /\ phase' = "generate"

\* the step changes the flag of a record that has been parsed
FlagChanges ==
    \E f \in DOMAIN infos :
        /\ infos[f].parsed
        /\ \E s \in 1..Len(infos[f].Structs) :
              infos'[f].Structs[s].NeedsGen # infos[f].Structs[s].NeedsGen

\* the names the dive rules of the parsed records refer to, wherever they
\* stand
AllReferences == UNION { fileReferences(infos[f], TRUE) : f \in DOMAIN infos }

\* the step leaves every declared record in place, flagged when parsing
\* flagged it or when some dive rule of the package refers to it
FlagsAsDeclared ==
    \A i \in 1..Len(world.files) :
        LET f == world.files[i].Name
        IN /\ Len(infos'[f].Structs) = Len(world.files[i].decls)
           /\ \A s \in 1..Len(infos[f].Structs) :
                 infos'[f].Structs[s].NeedsGen =
                     (infos[f].Structs[s].NeedsGen
                      \/ infos[f].Structs[s].Name \in AllReferences)

\* C27: no NeedsGen flag changes before every file of the package has been
\* parsed, and after the closure pass the flags are those the declarations
\* determine, in whatever order the files were parsed and are visited by
\* the pass: a record is flagged by a dive rule that refers to it whether
\* it was parsed before or after the record that carries the rule.
C27_ClosureAfterParseAnyOrder ==
    [][ /\ FlagChanges => AllParsed
        /\ ClosureStep => FlagsAsDeclared ]_vars

\* B stands in a second file and has no rule of its own; A dives into it
\* through a pointer; the pass has flagged B
C27_Witness ==
    /\ mode = "package" /\ phase = "generate"
    /\ Len(world.files) = 2
    /\ \E r \in AllStructs : \E fld \in AllFields(r.info) :
          /\ r.file = "a.go" /\ HasDive(fld)
          /\ fld.Type = TypeExpr(<<"star">>, Ident("B"))
    /\ \E t \in AllStructs :
          /\ t.file = "b.go" /\ t.info.Name = "B"
          /\ t.info.Fields = <<>> /\ t.info.NeedsGen

\* the FileInfos with every NeedsGen flag cleared
WithoutFlags(fi) ==
    [f \in DOMAIN fi |->
       [fi[f] EXCEPT !.Structs =
          [s \in 1..Len(fi[f].Structs) |-> [fi[f].Structs[s] EXCEPT !.NeedsGen = FALSE]]]]

\* C28: the closure pass changes nothing in a record but NeedsGen, never
\* clears a flag that was set, and applied to its own result, in any
\* visiting order, gives that result again.
C28_ClosureOnlyRaisesFlags ==
    [][ ClosureStep =>
          /\ WithoutFlags(infos') = WithoutFlags(infos)
          /\ \A f \in DOMAIN infos : \A s \in 1..Len(infos[f].Structs) :
                infos[f].Structs[s].NeedsGen => infos'[f].Structs[s].NeedsGen
          /\ \A order \in Orders(infos') :
                discoverAndMarkDiveStructs(infos', order, TRUE) = infos' ]_vars

\* A and B stand in one file; A has a rule of its own and is not referred
\* to, B has none and is dived into: after the pass both are flagged
C28_Witness ==
    /\ mode = "package" /\ phase = "generate"
    /\ Len(world.files) = 1
    /\ \E r \in AllStructs : \E fld \in AllFields(r.info) :
          /\ r.info.Name = "A" /\ r.info.NeedsGen
          /\ HasDive(fld) /\ fld.Type = TypeExpr(<<"slice">>, Ident("B"))
    /\ \E t \in AllStructs :
          t.info.Name = "B" /\ t.info.Fields = <<>> /\ t.info.NeedsGen

\* C29: ParseFile never indexes typeGenDeclPositions out of range, whatever
\* the number of type declarations and of other declarations of the file.
C29_ParseFileStaysInRange ==
    runErr # "panic"

(***************************************************************************)
(* Applicability and emission (SpecResolve)                                *)
(***************************************************************************)
\* C30: for min, gt, gte, lt and lte and every field type, when
\* ValidateRules accepts the rule on the type, the rule's Generate for a
\* field of that type returns no error.
C30_AcceptedRuleGenerates ==
    (rtPc.stage = "applied" /\ rtLog = <<"none">>) => rtRes.err = "none"

====
